---- MODULE Spec2Model ----
(***************************************************************************)
(* Verification model of the ERPNext setup wizard's deployment pipeline:   *)
(* container bring-up with health polling (wizard/steps/docker.py) and the *)
(* post-deploy bootstrap (wizard/steps/site.py).                           *)
(*                                                                         *)
(* The pipeline is single-threaded.  Every call of executor.run is one     *)
(* step of the model; the exit code (and captured output) of the command   *)
(* is chosen by the environment.  `trace` records, in order, every command *)
(* issued, every operator prompt answered and every timed sleep/wait;      *)
(* `lastExit` is the exit code of the most recently issued command.        *)
(*                                                                         *)
(* cfg is the Config object handed to the stages.  It carries every        *)
(* attribute the stages read: the fields declared in                       *)
(* wizard/steps/configure.py:23-60 and the attributes build_image,         *)
(* enable_portainer and extra_sites read at docker.py:110,117 and          *)
(* site.py:417,428.  An attribute that a stage reads exactly once and that  *)
(* only selects a branch there (build_image, enable_portainer) is drawn at *)
(* the step that reads it; the attributes read repeatedly are fixed in     *)
(* Init.                                                                   *)
(*                                                                         *)
(* time.time() is modelled as a monotonic clock in whole seconds (`now`).  *)
(***************************************************************************)
EXTENDS Integers, Sequences, FiniteSets, TLC

\* ---------------------------------------------------------------- bounds
\* longest captured status output, in lines
MaxLines == 2
\* duration of a slow status probe, in seconds
MaxProbeSecs == 1

\* most optional items in one configuration: add-ons, secondary sites, the
\* mail relay and the object-store backup each count as one; a retry of the
\* primary site creation is granted only while retries and items together
\* stay below it
MaxItems == 2
\* most times the operator agrees to retry the primary site creation
MaxRetries == 1
\* most lines of the manifest before the register step runs
MaxManifestLines == 2

\* pages of tags one call of fetch_erpnext_versions requests at most
MaxPages == 2
\* most digits of the major number of a version string
MaxMajorDigits == 2
\* most characters of a value written to the environment file
MaxValueLen == 2
\* most lines of the hosts file before the wizard runs
MaxHostsLines == 2
\* longest password entered or loaded, in characters
MaxPasswordLen == 7
\* longest repository name in the URL of a custom add-on, in characters
MaxRepoLen == 2

\* ------------------------------------------------------ program constants
HealthTimeout == 120
PollInterval == 5
WaitRemote == 35
WaitLocal == 25

\* ssh.py:62-68  SSHExecutor.run returns the return code of the ssh process:
\* the exit status of the remote command, or ssh's own 255 when the host
\* cannot be reached
SshUnreachable == 255
\* return codes of executor.run: success, a failed command, a failed transport
ExitCodes == {0, 1, SshUnreachable}
DeployModes == {"local", "production", "remote"}

\* Sample lines of `docker compose ps --format json` output, one per class
\* of value json.loads and svc.get distinguish.
LineRunning == "{\"State\": \"running\"}"
LineExited == "{\"State\": \"exited\"}"
LineNoState == "{\"Name\": \"db\"}"
LineNotJson == "time=... level=warning"
LineArray == "[{\"State\": \"running\"}]"
Lines == {LineRunning, LineExited, LineNoState, LineNotJson, LineArray}

VARIABLES cfg, pc, trace, lastExit, exitStatus,
          now, start, stdout, allFailed, healthy,
          si, cat, ai, k, failed, counts, installed, intFailed, reports,
          manifest, regName, regRuns,
          envTarget, envTmp,
          loaderIn, errors,
          callArgs, callResult,
          fs, cwd

vars == <<cfg, pc, trace, lastExit, exitStatus,
          now, start, stdout, allFailed, healthy,
          si, cat, ai, k, failed, counts, installed, intFailed, reports,
          manifest, regName, regRuns,
          envTarget, envTmp,
          loaderIn, errors,
          callArgs, callResult,
          fs, cwd>>

\* locals of run_docker / _wait_for_healthy
dockerLocals == <<now, start, stdout, allFailed, healthy>>

\* locals of run_site and the functions it calls: loop indices (si: secondary
\* site, cat: add-on category, ai: add-on, k: step or sub-command), the
\* per-category `failed` lists and returned counts, `installed`, the
\* `failed` flag of an integration and the ok/fail line it printed
siteLocals == <<si, cat, ai, k, failed, counts, installed, intFailed, reports>>

\* the manifest sites/apps.txt inside the backend container, the add-on name
\* handed to the register step, and how often the step has run on it
registerLocals == <<manifest, regName, regRuns>>

\* the environment file of the deployment (./.env, or ~/frappe_docker/.env on
\* the remote host) and the local temporary file run_env_file writes first
envLocals == <<envTarget, envTmp>>

\* what load_config is given (the parsed file or the parsed arguments) and
\* the fields its error report names, in the order printed
loaderLocals == <<loaderIn, errors>>

\* the arguments of a function called on its own, and what it returned
callLocals == <<callArgs, callResult>>

\* the files run_prerequisites looks at, on the host the later stages work
\* on, and the working directory of the process
prereqLocals == <<fs, cwd>>

\* state of the parts of the program that run_docker and run_site do not touch
offStage == <<registerLocals, envLocals, loaderLocals, callLocals, prereqLocals>>

NoFile == [lines |-> <<>>, nl |-> TRUE]

RegisterIdle == manifest = NoFile /\ regName = "" /\ regRuns = 0
EnvIdle == envTarget = "absent" /\ envTmp = "absent"

LoaderIdle == loaderIn = <<>> /\ errors = <<>>

CallIdle == callArgs = <<>> /\ callResult = <<>>

PrereqIdle == fs = <<>> /\ cwd = "."

OffStageInit ==
    /\ RegisterIdle
    /\ EnvIdle
    /\ LoaderIdle
    /\ CallIdle
    /\ PrereqIdle

NoReports == [smtp |-> "unset", backup |-> "unset", health |-> "unset"]

SiteLocalsInit ==
    /\ si = 0 /\ cat = 0 /\ ai = 0 /\ k = 0
    /\ failed = <<<<>>, <<>>, <<>>>>
    /\ counts = <<-1, -1, -1>>
    /\ installed = -1
    /\ intFailed = FALSE
    /\ reports = NoReports

\* ------------------------------------------------------------- helpers
Event(c, a, s, n) == [cmd |-> c, arg |-> a, site |-> s, n |-> n]

\* executor.run(cmd): the command is issued and exits with `code`
Issue(c, a, s, code) ==
    /\ trace' = Append(trace, Event(c, a, s, 0))
    /\ lastExit' = code

\* sys.exit(1), or an uncaught exception reaching the top-level handler
Exit1 ==
    /\ exitStatus' = 1
    /\ pc' = "exited"

\* ----------------------------------------------------- reading the trace
Last(q) == q[Len(q)]
LastCmd == IF trace = <<>> THEN "" ELSE Last(trace).cmd
Count(c) == Cardinality({i \in DOMAIN trace : trace[i].cmd = c})
Finished == pc \in {"exited", "run_site"}

SeqsUpTo(S, n) == UNION {[1..m -> S] : m \in 0..n}

\* How long a status probe takes: no measurable time, or MaxProbeSecs.
ProbeSecs == {0, MaxProbeSecs}

\* What a status probe can return: any output with exit code 0; with a
\* non-zero exit code, no output or output that reports a running service.
ProbeResults ==
    {[code |-> 0, lines |-> l] : l \in SeqsUpTo(Lines, MaxLines)}
    \cup {[code |-> 1, lines |-> l] : l \in {<<>>, <<LineRunning>>}}

\* json.loads(line) succeeds
IsJson(line) == line # LineNotJson
\* json.loads(line) is a dict, so svc.get exists
IsObject(line) == line \in {LineRunning, LineExited, LineNoState}
\* svc.get("State", "")
StateOf(line) ==
    IF line = LineRunning THEN "running"
    ELSE IF line = LineExited THEN "exited"
    ELSE ""

\* The for-loop over the lines of a non-empty output, from line i on:
\* "all_up", "not_up" (loop left with all_up = False) or "raise" (an
\* exception the except clause does not name leaves the function).
RECURSIVE ScanLines(_, _)
ScanLines(lines, i) ==
    IF i > Len(lines) THEN "all_up"
    ELSE IF ~IsJson(lines[i]) THEN "not_up"
    ELSE IF ~IsObject(lines[i]) THEN "raise"
    ELSE IF StateOf(lines[i]) # "running" THEN "not_up"
    ELSE ScanLines(lines, i + 1)

ProbeOutcomeNeverReturns(code, lines) ==
    IF code = 0 /\ lines # <<>> /\ ScanLines(lines, 1) = "raise" THEN "raise" ELSE "sleep"

\* Outcome of one iteration body after the probe returned (code, lines):
\* "return_true", "sleep" or "raise".
ProbeOutcome(code, lines) ==
    IF code = 0 /\ lines # <<>>
    THEN LET r == ScanLines(lines, 1)
         IN IF r = "raise" THEN "raise"
            ELSE IF r = "all_up" /\ Len(lines) > 0 THEN "return_true"
            ELSE "sleep"
    ELSE "sleep"

\* ------------------------------------------------------ run_docker
\* cfg holds the attributes whose value the run has fixed; run_docker reads
\* cfg.build_image, cfg.enable_portainer and cfg.deploy_mode once each, and
\* each is chosen where it is read
InitDocker ==
    /\ cfg = <<>>
    /\ OffStageInit
    /\ pc = "run_docker"
    /\ trace = <<>>
    /\ lastExit = 0
    /\ exitStatus = -1
    /\ now = 0
    /\ start = 0
    /\ stdout = <<>>
    /\ allFailed = TRUE
    /\ healthy = "unset"
    /\ SiteLocalsInit

\* docker.py:110-114  optional image build; a failed build is fatal
DockerBuild ==
    /\ pc = "run_docker"
    /\ \E build_image \in BOOLEAN :
          IF build_image
          THEN \E code \in ExitCodes :
                  /\ Issue("docker-build", "", "", code)
                  /\ IF code = 0
                     THEN pc' = "overlay" /\ UNCHANGED exitStatus
                     ELSE Exit1
          ELSE /\ pc' = "overlay"
               /\ UNCHANGED <<trace, lastExit, exitStatus>>
    /\ UNCHANGED <<cfg, dockerLocals, siteLocals>>
    /\ UNCHANGED offStage

\* docker.py:117-118  write (or upload) the management-UI overlay; a failed
\* write or upload raises and ends the run
DockerOverlay ==
    /\ pc = "overlay"
    /\ \E enable_portainer \in BOOLEAN :
          IF enable_portainer
          THEN \E written \in BOOLEAN :
                  /\ trace' = Append(trace, Event("write_overlay", "", "", 0))
                  /\ IF written
                     THEN pc' = "down" /\ UNCHANGED exitStatus
                     ELSE Exit1
          ELSE /\ pc' = "down"
               /\ UNCHANGED <<trace, exitStatus>>
    /\ UNCHANGED <<cfg, lastExit, dockerLocals, siteLocals>>
    /\ UNCHANGED offStage

DockerDownNextIgnoresFailure(code) == "up"

\* docker.py:122-127  stop and remove
DockerDownNext(code) == IF code # 0 THEN "exited" ELSE "up"

DockerDown ==
    /\ pc = "down"
    /\ \E code \in ExitCodes :
          /\ Issue("down", "", "", code)
          /\ pc' = DockerDownNext(code)
          /\ exitStatus' = IF pc' = "exited" THEN 1 ELSE exitStatus
    /\ UNCHANGED <<cfg, dockerLocals, siteLocals>>
    /\ UNCHANGED offStage

\* docker.py:130-136  create and start, detached
DockerUpNextIgnoresFailure(code) == "health_start"

DockerUpNext(code) == IF code # 0 THEN "exited" ELSE "health_start"

DockerUp ==
    /\ pc = "up"
    /\ \E code \in ExitCodes :
          /\ Issue("up", "", "", code)
          /\ pc' = DockerUpNext(code)
          /\ exitStatus' = IF pc' = "exited" THEN 1 ELSE exitStatus
    /\ UNCHANGED <<cfg, dockerLocals, siteLocals>>
    /\ UNCHANGED offStage

\* docker.py:76-77  _wait_for_healthy entry: start = time.time()
HealthStart ==
    /\ pc = "health_start"
    /\ start' = now
    /\ pc' = "poll_check"
    /\ UNCHANGED <<cfg, trace, lastExit, exitStatus, now, stdout, allFailed, healthy, siteLocals>>
    /\ UNCHANGED offStage

WithinBudgetInclusive(t, s) == t - s <= HealthTimeout

\* docker.py:78  while time.time() - start < timeout
WithinBudget(t, s) == t - s < HealthTimeout

\* docker.py:78,101-102  loop test; on exhaustion report timeout
PollCheck ==
    /\ pc = "poll_check"
    /\ IF WithinBudget(now, start)
       THEN pc' = "poll_probe" /\ UNCHANGED healthy
       ELSE pc' = "poll_done" /\ healthy' = "false"
    /\ UNCHANGED <<cfg, trace, lastExit, exitStatus, now, start, stdout, allFailed, siteLocals>>
    /\ UNCHANGED offStage

\* docker.py:79-99  one status probe and the scan of its output
PollProbe ==
    /\ pc = "poll_probe"
    /\ \E r \in ProbeResults, d \in ProbeSecs :
          /\ Issue("ps", "", "", r.code)
          /\ stdout' = r.lines
          /\ now' = now + d
          /\ allFailed' = (allFailed /\ r.code # 0)
          /\ LET o == ProbeOutcome(r.code, r.lines)
             IN CASE o = "return_true" ->
                       pc' = "poll_done" /\ healthy' = "true" /\ UNCHANGED exitStatus
                  [] o = "sleep" ->
                       pc' = "poll_sleep" /\ UNCHANGED <<healthy, exitStatus>>
                  [] o = "raise" ->
                       Exit1 /\ UNCHANGED healthy
    /\ UNCHANGED <<cfg, start, siteLocals>>
    /\ UNCHANGED offStage

\* docker.py:100  time.sleep(5).  The captured output is not read again
\* before the next probe rebinds it, so it is dropped here.
PollSleep ==
    /\ pc = "poll_sleep"
    /\ trace' = Append(trace, Event("sleep", "", "", PollInterval))
    /\ now' = now + PollInterval
    /\ stdout' = <<>>
    /\ pc' = "poll_check"
    /\ UNCHANGED <<cfg, lastExit, exitStatus, start, allFailed, healthy, siteLocals>>
    /\ UNCHANGED offStage

WaitTimeSwapped(mode) == IF mode = "remote" THEN WaitLocal ELSE WaitRemote

\* docker.py:141
WaitTime(mode) == IF mode = "remote" THEN WaitRemote ELSE WaitLocal

\* docker.py:140-142  fall back to the fixed wait when the poll timed out;
\* run_docker returns and main calls run_site
DockerFinish ==
    /\ pc = "poll_done"
    /\ IF healthy # "true"
       THEN \E mode \in DeployModes :
               /\ cfg' = [deploy_mode |-> mode]
               /\ trace' = Append(trace, Event("wait", "", "", WaitTime(mode)))
               /\ now' = now + WaitTime(mode)
       ELSE UNCHANGED <<cfg, trace, now>>
    /\ pc' = "run_site"
    /\ UNCHANGED <<lastExit, exitStatus, start, stdout, allFailed, healthy, siteLocals>>
    /\ UNCHANGED offStage

NextDocker ==
    \/ DockerBuild
    \/ DockerOverlay
    \/ DockerDown
    \/ DockerUp
    \/ HealthStart
    \/ PollCheck
    \/ PollProbe
    \/ PollSleep
    \/ DockerFinish

SpecDocker == InitDocker /\ [][NextDocker]_vars

\* ====================================================== run_site

PrimarySite == "site1"
SitePool == <<"site2", "site3", "site4", "site5">>
OfficialPool == <<"hrms", "payments", "healthcare", "education", "lending">>
CommunityPool == <<"community1", "community2", "community3", "community4", "community5">>
CustomPool == <<"custom1", "custom2", "custom3", "custom4", "custom5">>

Prefix(pool, n) == SubSeq(pool, 1, n)

\* Configurations of the bootstrap stage: cfg.extra_apps, cfg.community_apps,
\* cfg.custom_apps (add-ons by repo name, names distinct), cfg.extra_sites,
\* whether cfg.smtp_host is set and cfg.backup_enabled, with at most MaxItems
\* optional items together.
SiteConfigs ==
    {[extra_apps |-> Prefix(OfficialPool, q[1]),
      community_apps |-> Prefix(CommunityPool, q[2]),
      custom_apps |-> Prefix(CustomPool, q[3]),
      extra_sites |-> Prefix(SitePool, q[4]),
      smtp_host |-> (q[5] = 1),
      backup_enabled |-> (q[6] = 1)] :
        q \in {r \in (0..MaxItems) \X (0..MaxItems) \X (0..MaxItems) \X (0..MaxItems)
                      \X (0..1) \X (0..1) :
                  r[1] + r[2] + r[3] + r[4] + r[5] + r[6] <= MaxItems}}

\* number of optional items of a configuration
ConfigSize(c) ==
    Len(c.extra_apps) + Len(c.community_apps) + Len(c.custom_apps) + Len(c.extra_sites)
        + (IF c.smtp_host THEN 1 ELSE 0) + (IF c.backup_enabled THEN 1 ELSE 0)

\* the list a category function iterates: 1 official, 2 community, 3 custom
AppList(c) ==
    IF c = 1 THEN cfg.extra_apps
    ELSE IF c = 2 THEN cfg.community_apps
    ELSE cfg.custom_apps

\* site.py:430-444  the add-ons installed onto each secondary site
AllApps == cfg.extra_apps \o cfg.community_apps \o cfg.custom_apps

\* cfg.deploy_mode, when the configuration at hand does not fix it
ModeChoices == IF "deploy_mode" \in DOMAIN cfg THEN {cfg.deploy_mode} ELSE DeployModes

InitSite ==
    /\ cfg \in SiteConfigs
    /\ OffStageInit
    /\ pc = "run_site"
    /\ trace = <<>>
    /\ lastExit = 0
    /\ exitStatus = -1
    /\ now = 0
    /\ start = 0
    /\ stdout = <<>>
    /\ allFailed = TRUE
    /\ healthy = "unset"
    /\ SiteLocalsInit

CreateSiteNextIgnoresFailure(code) == "scheduler"

\* site.py:43-48  `if code == 0: break`, else the retry prompt
CreateSiteNext(code) == IF code = 0 THEN "scheduler" ELSE "create_retry"

\* site.py:35-44  one attempt of `bench new-site` for the primary site
CreateSite ==
    /\ pc \in {"run_site", "create_site"}
    /\ \E code \in ExitCodes :
          /\ Issue("new-site", "", PrimarySite, code)
          /\ pc' = CreateSiteNext(code)
    /\ UNCHANGED <<cfg, exitStatus, dockerLocals, siteLocals>>
    /\ UNCHANGED offStage

\* site.py:47-48, prompts.py:175-187  what confirm_action does with the
\* operator's answer: "retry", exit status 1 or exit status 0 (prompt
\* cancelled)
ConfirmOutcomeIgnoresNo(answer) ==
    IF answer \in {"yes", "no"} THEN "retry" ELSE "exit0"

ConfirmOutcome(answer) ==
    IF answer = "yes" THEN "retry"
    ELSE IF answer = "no" THEN "exit1"
    ELSE "exit0"

\* site.py:46-50  the operator is asked whether to retry
ConfirmRetry ==
    /\ pc = "create_retry"
    /\ \E answer \in {"yes", "no", "cancel"} :
          /\ answer = "yes" =>
                /\ Count("confirm") < MaxRetries
                /\ Count("confirm") + ConfigSize(cfg) < MaxItems
          /\ trace' = Append(trace, Event("confirm", answer, "", 0))
          /\ LET o == ConfirmOutcome(answer)
             IN CASE o = "retry" -> pc' = "create_site" /\ UNCHANGED exitStatus
                  [] o = "exit1" -> Exit1
                  [] o = "exit0" -> exitStatus' = 0 /\ pc' = "exited"
    /\ UNCHANGED <<cfg, lastExit, dockerLocals, siteLocals>>
    /\ UNCHANGED offStage

\* site.py:52-60  enable the scheduler; a failure is only reported
EnableScheduler ==
    /\ pc = "scheduler"
    /\ \E code \in ExitCodes : Issue("enable-scheduler", "", PrimarySite, code)
    /\ pc' = "extra_site"
    /\ si' = 1
    /\ UNCHANGED <<cfg, exitStatus, dockerLocals, cat, ai, k, failed, counts,
                   installed, intFailed, reports>>
    /\ UNCHANGED offStage

\* site.py:417-418, 63-83  create the next secondary site, or leave the loop
CreateExtraSite ==
    /\ pc = "extra_site"
    /\ IF si > Len(cfg.extra_sites)
       THEN /\ pc' = "apps"
            /\ cat' = 1
            /\ UNCHANGED <<trace, lastExit, si>>
       ELSE /\ \E code \in ExitCodes :
                  /\ Issue("new-site", "", cfg.extra_sites[si], code)
                  /\ IF code = 0
                     THEN pc' = "extra_sched" /\ si' = si
                     ELSE pc' = "extra_site" /\ si' = si + 1
            /\ UNCHANGED cat
    /\ UNCHANGED <<cfg, exitStatus, dockerLocals, ai, k, failed, counts,
                   installed, intFailed, reports>>
    /\ UNCHANGED offStage

\* site.py:81  scheduler of a secondary site, exit code not looked at
ExtraScheduler ==
    /\ pc = "extra_sched"
    /\ \E code \in ExitCodes : Issue("enable-scheduler", "", cfg.extra_sites[si], code)
    /\ pc' = "extra_site"
    /\ si' = si + 1
    /\ UNCHANGED <<cfg, exitStatus, dockerLocals, cat, ai, k, failed, counts,
                   installed, intFailed, reports>>
    /\ UNCHANGED offStage

\* site.py:158-164, 201-205, 232-236  entry of a category function: return 0
\* for an empty list, else start the loop with failed = []; after the third
\* category the counts are summed (site.py:420-424)
EnterCategory ==
    /\ pc = "apps"
    /\ IF cat > 3
       THEN /\ installed' = counts[1] + counts[2] + counts[3]
            /\ pc' = "sec_install"
            /\ si' = 1
            /\ k' = 1
            /\ UNCHANGED <<cat, ai, counts>>
       ELSE /\ IF AppList(cat) = <<>>
               THEN /\ counts' = [counts EXCEPT ![cat] = 0]
                    /\ cat' = cat + 1
                    /\ pc' = "apps"
                    /\ UNCHANGED ai
               ELSE /\ ai' = 1
                    /\ pc' = "app_next"
                    /\ UNCHANGED <<cat, counts>>
            /\ UNCHANGED <<installed, si, k>>
    /\ UNCHANGED <<cfg, trace, lastExit, exitStatus, dockerLocals, failed,
                   intFailed, reports>>
    /\ UNCHANGED offStage

\* site.py:166, 193  loop test of a category function; at the end of the
\* list it returns len(list) - len(failed)
CategoryCount(list, failedList) == Len(list) - Len(failedList)

NextApp ==
    /\ pc = "app_next"
    /\ IF ai > Len(AppList(cat))
       THEN /\ counts' = [counts EXCEPT ![cat] = CategoryCount(AppList(cat), failed[cat])]
            /\ cat' = cat + 1
            /\ pc' = "apps"
            /\ UNCHANGED k
       ELSE /\ pc' = IF cat = 1 THEN "app_detect" ELSE "app_step"
            /\ k' = 1
            /\ UNCHANGED <<cat, counts>>
    /\ UNCHANGED <<cfg, trace, lastExit, exitStatus, dockerLocals, si, ai, failed,
                   installed, intFailed, reports>>
    /\ UNCHANGED offStage

\* site.py:171-177, apps.py:42-47  branch of an official add-on: no entry of
\* OPTIONAL_APPS sets one, so `git ls-remote` is run on the local machine
DetectBranch ==
    /\ pc = "app_detect"
    /\ \E code \in ExitCodes : Issue("ls-remote", AppList(cat)[ai], "", code)
    /\ pc' = "app_step"
    /\ UNCHANGED <<cfg, exitStatus, dockerLocals, siteLocals>>
    /\ UNCHANGED offStage

\* site.py:102-148  the six commands of _install_app, in order
StepCmd == <<"get-app", "pip-install", "register", "install-app", "bench-build", "copy-assets">>

\* site.py:107-109, 113-115, 128-130, 134-136, 150  what _install_app does
\* after step `step` exited with `code`: "failed" (return False), "continue"
\* with the next step, or "installed" (return True)
StepResultSkipsInstallCheck(step, code) ==
    IF code # 0 /\ step \in {1, 2, 5} THEN "failed"
    ELSE IF step = 6 THEN "installed"
    ELSE "continue"

StepResult(step, code) ==
    IF code # 0 /\ step \in {1, 2, 4, 5} THEN "failed"
    ELSE IF step = 6 THEN "installed"
    ELSE "continue"

\* site.py:102-150 and 180-185  one command of the sub-pipeline
InstallStep ==
    /\ pc = "app_step"
    /\ \E code \in ExitCodes :
          /\ Issue(StepCmd[k], AppList(cat)[ai], PrimarySite, code)
          /\ LET r == StepResult(k, code)
             IN CASE r = "failed" ->
                       /\ failed' = [failed EXCEPT ![cat] = Append(@, AppList(cat)[ai])]
                       /\ ai' = ai + 1
                       /\ pc' = "app_next"
                       /\ UNCHANGED k
                  [] r = "installed" ->
                       /\ ai' = ai + 1
                       /\ pc' = "app_next"
                       /\ UNCHANGED <<failed, k>>
                  [] r = "continue" ->
                       /\ k' = k + 1
                       /\ pc' = "app_step"
                       /\ UNCHANGED <<failed, ai>>
    /\ UNCHANGED <<cfg, exitStatus, dockerLocals, si, cat, counts, installed,
                   intFailed, reports>>
    /\ UNCHANGED offStage

SecondaryCmdFetches == "get-app"

\* site.py:431-443  the one command per add-on and secondary site
SecondaryCmd == "install-app"

\* site.py:428-444  install the configured add-ons onto each secondary site
SecondaryInstall ==
    /\ pc = "sec_install"
    /\ IF si > Len(cfg.extra_sites)
       THEN /\ pc' = "restart"
            /\ UNCHANGED <<trace, lastExit, si, k>>
       ELSE IF k > Len(AllApps)
       THEN /\ si' = si + 1
            /\ k' = 1
            /\ pc' = "sec_install"
            /\ UNCHANGED <<trace, lastExit>>
       ELSE /\ \E code \in ExitCodes :
                  Issue(SecondaryCmd, AllApps[k], cfg.extra_sites[si], code)
            /\ k' = k + 1
            /\ pc' = "sec_install"
            /\ UNCHANGED si
    /\ UNCHANGED <<cfg, exitStatus, dockerLocals, cat, ai, failed, counts,
                   installed, intFailed, reports>>
    /\ UNCHANGED offStage

ShouldRestartAlways(n) == n >= 0

\* site.py:446  the restart decision
ShouldRestart(n) == n > 0

\* site.py:446-449  restart the frontend when something was installed
RestartFrontend ==
    /\ pc = "restart"
    /\ IF ShouldRestart(installed)
       THEN \E code \in ExitCodes : Issue("restart", "frontend", "", code)
       ELSE UNCHANGED <<trace, lastExit>>
    /\ pc' = "smtp"
    /\ UNCHANGED <<cfg, exitStatus, dockerLocals, siteLocals>>
    /\ UNCHANGED offStage

SmtpKeys == <<"mail_server", "mail_port", "mail_login", "mail_password", "use_tls">>
BackupKeys == <<"backup_bucket", "backup_region", "backup_endpoint",
                "backup_access_key", "backup_secret_key">>

MarkFailedLastOnly(flag, code) == code # 0

\* site.py:276-277, 300-301  `if code != 0: failed = True`
MarkFailed(flag, code) == flag \/ code # 0

\* site.py:260-266  _configure_smtp does nothing without cfg.smtp_host
SmtpEnter ==
    /\ pc = "smtp"
    /\ IF cfg.smtp_host
          THEN pc' = "smtp_cmd" /\ k' = 1 /\ intFailed' = FALSE /\ UNCHANGED reports
          ELSE pc' = "backup" /\ UNCHANGED <<k, intFailed, reports>>
    /\ UNCHANGED <<cfg, trace, lastExit, exitStatus, dockerLocals, si, cat, ai,
                   failed, counts, installed>>
    /\ UNCHANGED offStage

\* site.py:267-279  the five set-config commands; any non-zero exit marks
\* the integration failed
SmtpCmd ==
    /\ pc = "smtp_cmd"
    /\ \E code \in ExitCodes :
          /\ Issue("set-config", SmtpKeys[k], PrimarySite, code)
          /\ intFailed' = MarkFailed(intFailed, code)
    /\ IF k = Len(SmtpKeys)
       THEN /\ reports' = [reports EXCEPT !.smtp = IF intFailed' THEN "failed" ELSE "ok"]
            /\ pc' = "backup"
            /\ UNCHANGED k
       ELSE /\ k' = k + 1
            /\ pc' = "smtp_cmd"
            /\ UNCHANGED reports
    /\ UNCHANGED <<cfg, exitStatus, dockerLocals, si, cat, ai, failed, counts, installed>>
    /\ UNCHANGED offStage

\* site.py:284-290  _configure_backup does nothing unless cfg.backup_enabled
BackupEnter ==
    /\ pc = "backup"
    /\ IF cfg.backup_enabled
          THEN pc' = "backup_cmd" /\ k' = 1 /\ intFailed' = FALSE /\ UNCHANGED reports
          ELSE pc' = "verify" /\ UNCHANGED <<k, intFailed, reports>>
    /\ UNCHANGED <<cfg, trace, lastExit, exitStatus, dockerLocals, si, cat, ai,
                   failed, counts, installed>>
    /\ UNCHANGED offStage

\* site.py:291-303
BackupCmd ==
    /\ pc = "backup_cmd"
    /\ \E code \in ExitCodes :
          /\ Issue("set-config", BackupKeys[k], PrimarySite, code)
          /\ intFailed' = MarkFailed(intFailed, code)
    /\ IF k = Len(BackupKeys)
       THEN /\ reports' = [reports EXCEPT !.backup = IF intFailed' THEN "failed" ELSE "ok"]
            /\ pc' = "verify"
            /\ UNCHANGED k
       ELSE /\ k' = k + 1
            /\ pc' = "backup_cmd"
            /\ UNCHANGED reports
    /\ UNCHANGED <<cfg, exitStatus, dockerLocals, si, cat, ai, failed, counts, installed>>
    /\ UNCHANGED offStage

\* site.py:306-317  final diagnostic; a failure is a warning
VerifyHealth ==
    /\ pc = "verify"
    /\ \E code \in ExitCodes :
          /\ Issue("doctor", "", PrimarySite, code)
          /\ reports' = [reports EXCEPT !.health = IF code = 0 THEN "ok" ELSE "warning"]
    /\ pc' = "hosts"
    /\ UNCHANGED <<cfg, exitStatus, dockerLocals, si, cat, ai, k, failed, counts,
                   installed, intFailed>>
    /\ UNCHANGED offStage

\* site.py:335-346  reading and appending the hosts file: the entry is there,
\* it is appended, PermissionError (handled), or another exception
HostsOutcomes == {"present", "appended", "permission", "error"}

\* site.py:320-359  hosts registration, local mode only; an exception other
\* than PermissionError leaves run_site
UpdateHosts ==
    /\ pc = "hosts"
    /\ \E mode \in ModeChoices :
          IF mode # "local"
          THEN pc' = "show_done" /\ UNCHANGED <<trace, exitStatus>>
          ELSE \E outcome \in HostsOutcomes :
                  /\ trace' = Append(trace, Event("hosts", outcome, PrimarySite, 0))
                  /\ IF outcome = "error"
                     THEN Exit1
                     ELSE pc' = "show_done" /\ UNCHANGED exitStatus
    /\ UNCHANGED <<cfg, lastExit, dockerLocals, siteLocals>>
    /\ UNCHANGED offStage

\* site.py:362-407  completion banner; run_site and main return
ShowDone ==
    /\ pc = "show_done"
    /\ trace' = Append(trace, Event("summary", "", PrimarySite, 0))
    /\ pc' = "done"
    /\ exitStatus' = 0
    /\ UNCHANGED <<cfg, lastExit, dockerLocals, siteLocals>>
    /\ UNCHANGED offStage

NextSite ==
    \/ CreateSite
    \/ ConfirmRetry
    \/ EnableScheduler
    \/ CreateExtraSite
    \/ ExtraScheduler
    \/ EnterCategory
    \/ NextApp
    \/ DetectBranch
    \/ InstallStep
    \/ SecondaryInstall
    \/ RestartFrontend
    \/ SmtpEnter
    \/ SmtpCmd
    \/ BackupEnter
    \/ BackupCmd
    \/ VerifyHealth
    \/ UpdateHosts
    \/ ShowDone

SpecSite == InitSite /\ [][NextSite]_vars

\* ====================================================== register step

\* Every variable of run_docker and run_site at rest; the specifications of
\* single steps start from here.
StagesIdle ==
    /\ trace = <<>>
    /\ lastExit = 0
    /\ exitStatus = -1
    /\ now = 0
    /\ start = 0
    /\ stdout = <<>>
    /\ allFailed = TRUE
    /\ healthy = "unset"
    /\ SiteLocalsInit

\* A text file is its lines and whether the last line ends with a newline
\* (`nl`; an empty file has no lines).  A line is a sequence of name-sized
\* pieces, so that a name glued to the end of another line is a different
\* line from the name alone.
ManifestTokens == {"frappe", "erpnext", "hrms"}
RegisterNames == {"hrms", "payments"}
ManifestLines == {<<>>} \cup {<<w>> : w \in ManifestTokens}

Manifests ==
    {f \in [lines : SeqsUpTo(ManifestLines, MaxManifestLines), nl : BOOLEAN] :
        ~f.nl => (f.lines # <<>> /\ Last(f.lines) # <<>>)}

\* site.py:119  grep -qxF "$1" sites/apps.txt: some whole line is the name
HasLine(f, name) == \E i \in DOMAIN f.lines : f.lines[i] = <<name>>

\* site.py:119  echo "$1" >> sites/apps.txt: the bytes `name\n` are added at
\* the end of the file, after whatever the last byte is
EchoAppend(f, name) ==
    IF f.lines = <<>> \/ f.nl
    THEN [lines |-> Append(f.lines, <<name>>), nl |-> TRUE]
    ELSE [lines |-> [f.lines EXCEPT ![Len(f.lines)] = @ \o <<name>>], nl |-> TRUE]

\* site.py:117-121  step 3: append the name unless grep finds it
Register(f, name) == IF HasLine(f, name) THEN f ELSE EchoAppend(f, name)

\* the step is run twice on the same manifest
RegisterRuns == 2

InitRegister ==
    /\ cfg = <<>>
    /\ StagesIdle
    /\ EnvIdle
    /\ LoaderIdle
    /\ pc = "register"
    /\ manifest \in Manifests
    /\ regName \in RegisterNames
    /\ regRuns = 0
    /\ CallIdle
    /\ PrereqIdle

RegisterStep ==
    /\ pc = "register"
    /\ regRuns < RegisterRuns
    /\ manifest' = Register(manifest, regName)
    /\ regRuns' = regRuns + 1
    /\ UNCHANGED <<cfg, pc, trace, lastExit, exitStatus, dockerLocals, siteLocals, regName>>
    /\ UNCHANGED <<envLocals, loaderLocals, callLocals, prereqLocals>>

NextRegister ==
    \/ RegisterStep

SpecRegister == InitRegister /\ [][NextRegister]_vars

\* ====================================================== run_env_file

\* Content of a file as far as this step can tell: it does not exist
\* ("absent"), holds what an earlier run left ("old"), is empty, holds the
\* first part of the new content ("partial") or all of it ("new").
PriorContents == {"absent", "old"}

\* local variables of the stage untouched by this step
envFrame == <<dockerLocals, siteLocals, registerLocals, loaderLocals, callLocals,
              prereqLocals>>

InitEnv ==
    /\ StagesIdle
    /\ RegisterIdle
    /\ LoaderIdle
    /\ \E mode \in DeployModes : cfg = [deploy_mode |-> mode]
    /\ pc = "env_file"
    /\ envTarget \in PriorContents
    /\ envTmp \in PriorContents
    /\ CallIdle
    /\ PrereqIdle

EnvRaiseSwallowed == pc' = "run_docker" /\ UNCHANGED exitStatus

\* an exception leaves run_env_file and _run_setup; the top-level handler
\* (erpnext-setup-wizard.py:129-137) exits with status 1
EnvRaise == Exit1

\* env_file.py:58, 71  choose the way of writing by cfg.deploy_mode
EnvBranch ==
    /\ pc = "env_file"
    /\ pc' = IF cfg.deploy_mode = "remote" THEN "env_open" ELSE "env_unlink"
    /\ UNCHANGED <<cfg, trace, lastExit, exitStatus, envLocals, envFrame>>

\* env_file.py:72-75  remove a temporary file left by an earlier run
EnvUnlinkStale ==
    /\ pc = "env_unlink"
    /\ envTmp' = "absent"
    /\ pc' = "env_create"
    /\ UNCHANGED <<cfg, trace, lastExit, exitStatus, envTarget, envFrame>>

\* env_file.py:76  os.open(..., O_WRONLY | O_CREAT | O_EXCL): a new empty file
EnvCreate ==
    /\ pc = "env_create"
    /\ envTmp' = "empty"
    /\ pc' = "env_write"
    /\ UNCHANGED <<cfg, trace, lastExit, exitStatus, envTarget, envFrame>>

\* env_file.py:61  open(tmp_path, "w"): created or truncated
EnvOpen ==
    /\ pc = "env_open"
    /\ envTmp' = "empty"
    /\ pc' = "env_write"
    /\ UNCHANGED <<cfg, trace, lastExit, exitStatus, envTarget, envFrame>>

\* env_file.py:62, 78-79  f.write and the close at the end of the `with`: the
\* content reaches the temporary file in pieces, or the write fails
EnvWrite ==
    /\ pc = "env_write"
    /\ \/ /\ envTmp = "empty"
          /\ envTmp' = "partial"
          /\ pc' = "env_write"
       \/ /\ envTmp = "partial"
          /\ envTmp' = "new"
          /\ pc' = IF cfg.deploy_mode = "remote" THEN "env_upload" ELSE "env_replace"
       \/ /\ UNCHANGED envTmp
          /\ pc' = IF cfg.deploy_mode = "remote" THEN "env_finally_raise" ELSE "env_except"
    /\ UNCHANGED <<cfg, trace, lastExit, exitStatus, envTarget, envFrame>>

\* env_file.py:80  os.replace(tmp_path, ".env"): the rename is one step
EnvReplace ==
    /\ pc = "env_replace"
    /\ envTarget' = envTmp
    /\ envTmp' = "absent"
    /\ trace' = Append(trace, Event("replace", "", "", 0))
    /\ pc' = "run_docker"
    /\ UNCHANGED <<cfg, lastExit, exitStatus, envFrame>>

\* env_file.py:81-86  on an exception remove the temporary file and re-raise
EnvExcept ==
    /\ pc = "env_except"
    /\ envTmp' = "absent"
    /\ EnvRaise
    /\ UNCHANGED <<cfg, trace, lastExit, envTarget, envFrame>>

\* what the next piece of a running scp transfer leaves of the destination,
\* which scp opens, truncates and fills in place
ScpNext(content) ==
    IF content \in PriorContents THEN "empty"
    ELSE IF content = "empty" THEN "partial"
    ELSE "new"

\* env_file.py:63, ssh.py:70-76  executor.upload: scp copies the temporary
\* file onto ~/frappe_docker/.env; upload raises when scp exits non-zero
EnvUpload ==
    /\ pc = "env_upload"
    /\ \/ /\ envTarget # "new"
          /\ envTarget' = ScpNext(envTarget)
          /\ pc' = "env_upload"
          /\ UNCHANGED <<trace, lastExit>>
       \/ /\ envTarget = "new"
          /\ Issue("upload", "", "", 0)
          /\ pc' = "env_finally"
          /\ UNCHANGED envTarget
       \/ /\ envTarget # "new"
          /\ \E code \in ExitCodes \ {0} : Issue("upload", "", "", code)
          /\ pc' = "env_finally_raise"
          /\ UNCHANGED envTarget
    /\ UNCHANGED <<cfg, exitStatus, envTmp, envFrame>>

\* env_file.py:65-69  finally: remove the temporary file; then go on to
\* run_docker, or let the pending exception through
EnvFinally ==
    /\ pc \in {"env_finally", "env_finally_raise"}
    /\ envTmp' = "absent"
    /\ IF pc = "env_finally"
       THEN pc' = "run_docker" /\ UNCHANGED exitStatus
       ELSE EnvRaise
    /\ UNCHANGED <<cfg, trace, lastExit, envTarget, envFrame>>

\* the process is killed: nothing more runs, no handler, no finally
EnvStepping ==
    pc \in {"env_file", "env_unlink", "env_create", "env_open", "env_write",
            "env_replace", "env_except", "env_upload", "env_finally",
            "env_finally_raise"}

EnvKill ==
    /\ EnvStepping
    /\ pc' = "killed"
    /\ UNCHANGED <<cfg, trace, lastExit, exitStatus, envLocals, envFrame>>

NextEnv ==
    \/ EnvBranch
    \/ EnvUnlinkStale
    \/ EnvCreate
    \/ EnvOpen
    \/ EnvWrite
    \/ EnvReplace
    \/ EnvExcept
    \/ EnvUpload
    \/ EnvFinally
    \/ EnvKill

SpecEnv == InitEnv /\ [][NextEnv]_vars

\* ====================================================== load_config

\* The keys of the file mapping, or the options of the command line, that
\* validation looks at.  A value is "absent" (key not in the mapping, option
\* not given), "empty" (present but falsy: "", null) or "set" (a valid value).
RequiredKeys == <<"site_name", "erpnext_version", "db_password", "admin_password">>
ModeKeys == <<"domain", "letsencrypt_email", "ssh_host">>
KeyStates == {"absent", "empty", "set"}

LoaderInputs ==
    [source : {"yaml", "args"},
     mode : DeployModes \cup {"absent"},
     site_name : KeyStates,
     erpnext_version : KeyStates,
     db_password : KeyStates,
     admin_password : KeyStates,
     domain : {"absent", "set"},
     letsencrypt_email : {"absent", "set"},
     ssh_host : {"absent", "set"}]

\* config_loader.py:239, 312  deploy_mode=data.get("mode", "local") / args.mode
ModeOf(d) == IF d.mode = "absent" THEN "local" ELSE d.mode

\* config_loader.py:152-157, 240-245  _require in the order of the Config
\* call: the keys not in the mapping; the first of them ends the process
AbsentRequired(d) == SelectSeq(RequiredKeys, LAMBDA key : d[key] = "absent")

\* config_loader.py:273-281  all(required): mode and the four values given
\* and not empty
ArgsComplete(d) ==
    /\ d.mode # "absent"
    /\ \A i \in DOMAIN RequiredKeys : d[RequiredKeys[i]] = "set"

\* the mode-specific keys _validate_config asks for in this mode
ModeRequired(mode) ==
    SelectSeq(ModeKeys, LAMBDA key :
        \/ key \in {"domain", "letsencrypt_email"} /\ mode \in {"production", "remote"}
        \/ key = "ssh_host" /\ mode = "remote")

ValidationErrorsSkipsEmail(d) ==
    SelectSeq(RequiredKeys, LAMBDA key : d[key] # "set")
       \o SelectSeq(ModeRequired(ModeOf(d)),
                    LAMBDA key : d[key] # "set" /\ key # "letsencrypt_email")

\* config_loader.py:160-199  _validate_config: one error per falsy required
\* field, then per missing mode-specific field
ValidationErrors(d) ==
    SelectSeq(RequiredKeys, LAMBDA key : d[key] # "set")
       \o SelectSeq(ModeRequired(ModeOf(d)), LAMBDA key : d[key] # "set")

InitLoader ==
    /\ cfg = <<>>
    /\ StagesIdle
    /\ RegisterIdle
    /\ EnvIdle
    /\ pc = "load_config"
    /\ loaderIn \in LoaderInputs
    /\ errors = <<>>
    /\ CallIdle
    /\ PrereqIdle

loaderFrame == <<cfg, trace, lastExit, dockerLocals, siteLocals, registerLocals,
                 envLocals, callLocals, prereqLocals, loaderIn>>

\* the report is printed and sys.exit(1) is called; otherwise the Config is
\* returned and _run_setup goes on to run_prerequisites
ReportOrReturn(errs) ==
    /\ errors' = errs
    /\ IF errs # <<>>
       THEN Exit1
       ELSE pc' = "prerequisites" /\ UNCHANGED exitStatus

\* config_loader.py:202-268, 349-351  --config given: _config_from_yaml
LoadYaml ==
    /\ pc = "load_config"
    /\ loaderIn.source = "yaml"
    /\ IF AbsentRequired(loaderIn) # <<>>
       THEN ReportOrReturn(<<AbsentRequired(loaderIn)[1]>>)
       ELSE ReportOrReturn(ValidationErrors(loaderIn))
    /\ UNCHANGED loaderFrame

\* config_loader.py:271-341, 352  no --config: _config_from_args; None sends
\* _run_setup to the interactive flow (erpnext-setup-wizard.py:43-56)
LoadArgs ==
    /\ pc = "load_config"
    /\ loaderIn.source = "args"
    /\ IF ~ArgsComplete(loaderIn)
       THEN pc' = "interactive" /\ UNCHANGED <<errors, exitStatus>>
       ELSE ReportOrReturn(ValidationErrors(loaderIn))
    /\ UNCHANGED loaderFrame

NextLoader ==
    \/ LoadYaml
    \/ LoadArgs

SpecLoader == InitLoader /\ [][NextLoader]_vars

\* ====================================================== configuration shape

\* What a text value looks like to the validators: "empty", "malformed"
\* (non-empty, rejected by the field's pattern) or "valid".
Syntax == {"empty", "malformed", "valid"}

\* a file mapping, an argument list, or the answers the operator submits.
\* config_loader.py:273-281: an argument list with an empty required value
\* builds nothing and the operator is asked, which is the interactive case.
ShapeInputs ==
    {d \in [source : {"interactive", "yaml", "args"},
            mode : DeployModes,
            site_name : Syntax,
            erpnext_version : Syntax,
            domain : Syntax,
            letsencrypt_email : Syntax,
            ssh_host : {"empty", "set"}] :
        d.source = "args" => d.site_name # "empty" /\ d.erpnext_version # "empty"}

\* configure.py:69-72, 81-84, 87-90; prompts.py:82-85  re.fullmatch
MatchesPattern(val) == val = "valid"

\* configure.py:134-139  ask_field for ssh_host is given no validate, so
\* every answer, the empty one included, is taken
NoValidate(val) == TRUE

\* configure.py:93-255  the prompts of run_configure return only an answer
\* their validator accepts; domain and e-mail are asked outside local mode
\* only, the host address in remote mode only
PromptsAccept(d) ==
    /\ d.mode = "remote" => NoValidate(d.ssh_host)
    /\ MatchesPattern(d.site_name)
    /\ MatchesPattern(d.erpnext_version)
    /\ d.mode # "local" => MatchesPattern(d.domain) /\ MatchesPattern(d.letsencrypt_email)

\* configure.py:125, 224-225, 502-529  fields not asked keep their defaults
ConfigureResult(d) ==
    [deploy_mode |-> d.mode,
     site_name |-> d.site_name,
     erpnext_version |-> d.erpnext_version,
     domain |-> IF d.mode = "local" THEN "empty" ELSE d.domain,
     letsencrypt_email |-> IF d.mode = "local" THEN "empty" ELSE d.letsencrypt_email,
     ssh_host |-> IF d.mode = "remote" THEN d.ssh_host ELSE "empty"]

\* config_loader.py:238-267, 311-340  Config(...) takes the values as given
LoadedConfig(d) ==
    [deploy_mode |-> d.mode,
     site_name |-> d.site_name,
     erpnext_version |-> d.erpnext_version,
     domain |-> d.domain,
     letsencrypt_email |-> d.letsencrypt_email,
     ssh_host |-> d.ssh_host]

\* config_loader.py:160-199  _validate_config over the shape fields: the
\* required checks, the format checks, the mode-specific checks
ShapeErrors(c) ==
    (IF c.site_name = "empty" THEN <<"site_name is required">> ELSE <<>>)
    \o (IF c.erpnext_version = "empty" THEN <<"erpnext_version is required">> ELSE <<>>)
    \o (IF c.site_name # "empty" /\ ~MatchesPattern(c.site_name)
        THEN <<"Invalid site_name">> ELSE <<>>)
    \o (IF c.erpnext_version # "empty" /\ ~MatchesPattern(c.erpnext_version)
        THEN <<"Invalid erpnext_version">> ELSE <<>>)
    \o (IF c.deploy_mode \in {"production", "remote"} /\ c.domain = "empty"
        THEN <<"domain is required">> ELSE <<>>)
    \o (IF c.deploy_mode \in {"production", "remote"}
        THEN IF c.letsencrypt_email = "empty"
             THEN <<"letsencrypt_email is required">>
             ELSE IF ~MatchesPattern(c.letsencrypt_email)
                  THEN <<"Invalid letsencrypt_email format">> ELSE <<>>
        ELSE <<>>)
    \o (IF c.deploy_mode = "remote" /\ c.ssh_host = "empty"
        THEN <<"ssh_host is required">> ELSE <<>>)

InitShape ==
    /\ cfg = <<>>
    /\ StagesIdle
    /\ RegisterIdle
    /\ EnvIdle
    /\ pc = "load_config"
    /\ loaderIn \in ShapeInputs
    /\ errors = <<>>
    /\ CallIdle
    /\ PrereqIdle

shapeFrame == <<trace, lastExit, dockerLocals, siteLocals, registerLocals,
                envLocals, callLocals, prereqLocals, loaderIn>>

\* erpnext-setup-wizard.py:41-57  no configuration from load_config: the
\* operator is asked, and the confirmed answers become the Config
Configure ==
    /\ pc = "load_config"
    /\ loaderIn.source = "interactive"
    /\ PromptsAccept(loaderIn)
    /\ cfg' = ConfigureResult(loaderIn)
    /\ pc' = "create_executor"
    /\ UNCHANGED <<errors, exitStatus>>
    /\ UNCHANGED shapeFrame

\* config_loader.py:202-341  a file or a complete argument list: the Config
\* is built, validated and returned, or the errors are printed and the
\* process exits
LoadValidated ==
    /\ pc = "load_config"
    /\ loaderIn.source \in {"yaml", "args"}
    /\ LET c == LoadedConfig(loaderIn)
           errs == ShapeErrors(c)
       IN /\ errors' = errs
          /\ IF errs # <<>>
             THEN Exit1 /\ UNCHANGED cfg
             ELSE /\ cfg' = c
                  /\ pc' = "create_executor"
                  /\ UNCHANGED exitStatus
    /\ UNCHANGED shapeFrame

NextShape ==
    \/ Configure
    \/ LoadValidated

SpecShape == InitShape /\ [][NextShape]_vars

\* ====================================================== build_compose_cmd

DbTypes == {"mariadb", "postgres", "mysql"}
CronValues == {"", "0 2 * * *", "@daily"}

ComposeInputs ==
    [db_type : DbTypes,
     deploy_mode : DeployModes,
     backup_cron : CronValues,
     enable_portainer : BOOLEAN]

FileBase == "compose.yaml"
FilePostgres == "overrides/compose.postgres.yaml"
FileMariadb == "overrides/compose.mariadb.yaml"
FileRedis == "overrides/compose.redis.yaml"
FileNoproxy == "overrides/compose.noproxy.yaml"
FileHttps == "overrides/compose.https.yaml"
FileBackup == "overrides/compose.backup-cron.yaml"
FilePortainer == "compose.portainer.yaml"

ComposeFilesIngressFirst(c) ==
    <<FileBase>>
    \o <<IF c.deploy_mode = "local" THEN FileNoproxy ELSE FileHttps>>
    \o <<IF c.db_type = "postgres" THEN FilePostgres ELSE FileMariadb>>
    \o <<FileRedis>>
    \o (IF c.backup_cron # "" THEN <<FileBackup>> ELSE <<>>)
    \o (IF c.enable_portainer THEN <<FilePortainer>> ELSE <<>>)

\* docker.py:16-34  the list of files, in the order of the appends
ComposeFiles(c) ==
    <<FileBase>>
    \o <<IF c.db_type = "postgres" THEN FilePostgres ELSE FileMariadb>>
    \o <<FileRedis>>
    \o <<IF c.deploy_mode = "local" THEN FileNoproxy ELSE FileHttps>>
    \o (IF c.backup_cron # "" THEN <<FileBackup>> ELSE <<>>)
    \o (IF c.enable_portainer THEN <<FilePortainer>> ELSE <<>>)

\* docker.py:36-39  "docker compose -f ... -f ...", run from ~/frappe_docker
\* in remote mode
build_compose_cmd(c) ==
    [cd |-> IF c.deploy_mode = "remote" THEN "~/frappe_docker" ELSE "",
     files |-> ComposeFiles(c)]

InitCompose ==
    /\ cfg = <<>>
    /\ StagesIdle
    /\ RegisterIdle
    /\ EnvIdle
    /\ LoaderIdle
    /\ pc = "build_compose_cmd"
    /\ callArgs \in ComposeInputs
    /\ callResult = <<>>
    /\ PrereqIdle

callFrame == <<cfg, trace, lastExit, exitStatus, dockerLocals, siteLocals,
               registerLocals, envLocals, loaderLocals, prereqLocals, callArgs>>

ComposeCall ==
    /\ pc = "build_compose_cmd"
    /\ callResult' = build_compose_cmd(callArgs)
    /\ pc' = "returned"
    /\ UNCHANGED callFrame

NextCompose == ComposeCall

SpecCompose == InitCompose /\ [][NextCompose]_vars

\* ====================================================== run_prerequisites

\* frappe_docker (under the working directory, or in the remote home): not
\* there, an empty directory, a directory with other content but no
\* compose.yaml, a checkout holding compose.yaml, or a plain file
DirStates == {"absent", "empty", "partial", "templates", "file"}

\* compose: compose.yaml lies in the directory the process was started in
FileSystems == [compose : BOOLEAN, dir : DirStates]

LocalCodes == {0, 1}
ToolOutputs == {"", "version 1"}

InitPrereq ==
    /\ StagesIdle
    /\ RegisterIdle
    /\ EnvIdle
    /\ LoaderIdle
    /\ CallIdle
    /\ \E mode \in DeployModes : cfg = [deploy_mode |-> mode]
    /\ pc = "prerequisites"
    /\ fs \in FileSystems
    /\ cwd = "."

prereqFrame == <<cfg, registerLocals, envLocals, loaderLocals, callLocals>>

\* utils.py:25-34  check_tool: '' when the command fails, else its output
check_tool(code, out) == IF code # 0 THEN "" ELSE out

check_remote_toolIgnoresCode(code) == TRUE

\* prerequisites.py:14-23  _check_remote_tool
check_remote_tool(code) == code = 0

test_connectionAlwaysTrue(code) == TRUE

\* ssh.py:78-81  SSHExecutor.test_connection
test_connection(code) == code = 0

RemoteTools == <<"docker --version", "docker compose version", "git --version">>
LocalTools == <<"docker --version", "docker compose version">>

\* run_prerequisites returns; _run_setup calls run_env_file next
PrereqReturn == pc' = "env_file" /\ UNCHANGED exitStatus

\* prerequisites.py:30, 71  the branch on the deploy mode
PrereqEnter ==
    /\ pc = "prerequisites"
    /\ pc' = IF cfg.deploy_mode = "remote" THEN "ssh_tool" ELSE "local_tool"
    /\ k' = 1
    /\ UNCHANGED <<trace, lastExit, exitStatus, now, start, stdout, allFailed,
                   healthy, si, cat, ai, failed, counts, installed, intFailed,
                   reports, fs, cwd>>
    /\ UNCHANGED prereqFrame

\* prerequisites.py:32-35  the local ssh client
PrereqSshTool ==
    /\ pc = "ssh_tool"
    /\ \E code \in LocalCodes, out \in ToolOutputs :
          /\ Issue("ssh -V", "local", "", code)
          /\ IF check_tool(code, out) = ""
             THEN Exit1
             ELSE pc' = "test_connection" /\ UNCHANGED exitStatus
    /\ UNCHANGED <<dockerLocals, siteLocals, fs, cwd>>
    /\ UNCHANGED prereqFrame

\* prerequisites.py:38-42  the transport test
PrereqTestConnection ==
    /\ pc = "test_connection"
    /\ \E code \in ExitCodes :
          /\ Issue("echo ok", "remote", "", code)
          /\ IF ~test_connection(code)
             THEN Exit1
             ELSE pc' = "remote_tool" /\ UNCHANGED exitStatus
    /\ UNCHANGED <<dockerLocals, siteLocals, fs, cwd>>
    /\ UNCHANGED prereqFrame

\* prerequisites.py:48-53  docker, compose and git on the remote host
PrereqRemoteTool ==
    /\ pc = "remote_tool"
    /\ \E code \in ExitCodes :
          /\ Issue(RemoteTools[k], "remote", "", code)
          /\ IF ~check_remote_tool(code)
             THEN Exit1 /\ UNCHANGED k
             ELSE /\ UNCHANGED exitStatus
                  /\ IF k < Len(RemoteTools)
                     THEN k' = k + 1 /\ pc' = "remote_tool"
                     ELSE k' = 0 /\ pc' = "remote_folder"
    /\ UNCHANGED <<now, start, stdout, allFailed, healthy, si, cat, ai, failed,
                   counts, installed, intFailed, reports, fs, cwd>>
    /\ UNCHANGED prereqFrame

\* test -f over ssh: 0 when the file is there, 1 when not, 255 when the
\* transport fails
TestFileCodes(present) == {IF present THEN 0 ELSE 1, SshUnreachable}

\* prerequisites.py:58-59, 68-69  are the templates on the remote host?
PrereqRemoteFolder ==
    /\ pc = "remote_folder"
    /\ \E code \in TestFileCodes(fs.dir = "templates") :
          /\ Issue("test -f", "remote", "", code)
          /\ IF code # 0
             THEN pc' = "remote_clone" /\ UNCHANGED exitStatus
             ELSE PrereqReturn
    /\ UNCHANGED <<dockerLocals, siteLocals, fs, cwd>>
    /\ UNCHANGED prereqFrame

\* git clone <url> <dir>: works into a missing or empty directory and then
\* leaves a checkout; refuses any other target; can fail in every case
CloneCodes(dir, codes) ==
    IF dir \in {"absent", "empty"} THEN codes ELSE codes \ {0}

CloneResultKeepsDir(dir, code) == dir

CloneResult(dir, code) == IF code = 0 THEN "templates" ELSE dir

\* prerequisites.py:60-67  clone on the remote host
PrereqRemoteClone ==
    /\ pc = "remote_clone"
    /\ \E code \in CloneCodes(fs.dir, ExitCodes) :
          /\ Issue("git clone", "remote", "", code)
          /\ fs' = [fs EXCEPT !.dir = CloneResult(fs.dir, code)]
          /\ IF code # 0 THEN Exit1 ELSE PrereqReturn
    /\ UNCHANGED <<dockerLocals, siteLocals, cwd>>
    /\ UNCHANGED prereqFrame

\* prerequisites.py:73-80  docker and compose on this host
PrereqLocalTool ==
    /\ pc = "local_tool"
    /\ \E code \in LocalCodes, out \in ToolOutputs :
          /\ Issue(LocalTools[k], "local", "", code)
          /\ IF check_tool(code, out) = ""
             THEN Exit1 /\ UNCHANGED k
             ELSE /\ UNCHANGED exitStatus
                  /\ IF k < Len(LocalTools)
                     THEN k' = k + 1 /\ pc' = "local_tool"
                     ELSE k' = 0 /\ pc' = "local_folder"
    /\ UNCHANGED <<now, start, stdout, allFailed, healthy, si, cat, ai, failed,
                   counts, installed, intFailed, reports, fs, cwd>>
    /\ UNCHANGED prereqFrame

\* prerequisites.py:86, 107  compose.yaml in the working directory?
PrereqLocalFolder ==
    /\ pc = "local_folder"
    /\ IF fs.compose
       THEN PrereqReturn
       ELSE pc' = "local_git" /\ UNCHANGED exitStatus
    /\ UNCHANGED <<trace, lastExit, dockerLocals, siteLocals, fs, cwd>>
    /\ UNCHANGED prereqFrame

\* prerequisites.py:89-94, 101-102  git, then: is there a frappe_docker?
PrereqLocalGit ==
    /\ pc = "local_git"
    /\ \E code \in LocalCodes, out \in ToolOutputs :
          /\ Issue("git --version", "local", "", code)
          /\ IF check_tool(code, out) = ""
             THEN Exit1
             ELSE /\ UNCHANGED exitStatus
                  /\ pc' = IF fs.dir = "absent" THEN "local_clone" ELSE "chdir"
    /\ UNCHANGED <<dockerLocals, siteLocals, fs, cwd>>
    /\ UNCHANGED prereqFrame

\* prerequisites.py:95-100  clone into the working directory
PrereqLocalClone ==
    /\ pc = "local_clone"
    /\ \E code \in CloneCodes(fs.dir, LocalCodes) :
          /\ Issue("git clone", "local", "", code)
          /\ fs' = [fs EXCEPT !.dir = CloneResult(fs.dir, code)]
          /\ IF code # 0
             THEN Exit1
             ELSE pc' = "chdir" /\ UNCHANGED exitStatus
    /\ UNCHANGED <<dockerLocals, siteLocals, cwd>>
    /\ UNCHANGED prereqFrame

\* prerequisites.py:104-107  os.chdir raises when frappe_docker is not a
\* directory; the top-level handler then exits with status 1
PrereqChdir ==
    /\ pc = "chdir"
    /\ IF fs.dir = "file"
       THEN Exit1 /\ UNCHANGED cwd
       ELSE cwd' = "frappe_docker" /\ PrereqReturn
    /\ UNCHANGED <<trace, lastExit, dockerLocals, siteLocals, fs>>
    /\ UNCHANGED prereqFrame

NextPrereq ==
    \/ PrereqEnter
    \/ PrereqSshTool
    \/ PrereqTestConnection
    \/ PrereqRemoteTool
    \/ PrereqRemoteFolder
    \/ PrereqRemoteClone
    \/ PrereqLocalTool
    \/ PrereqLocalFolder
    \/ PrereqLocalGit
    \/ PrereqLocalClone
    \/ PrereqChdir

SpecPrereq == InitPrereq /\ [][NextPrereq]_vars

\* ====================================================== fetch_erpnext_versions

\* What one request for a page of tags can raise, and each class's base
\* class ("" above Exception, nothing caught beyond it)
Exceptions == {"URLError", "HTTPError", "TimeoutError", "ConnectionResetError",
               "IncompleteRead", "UnicodeDecodeError", "JSONDecodeError",
               "KeyError", "TypeError"}

BaseClass(e) ==
    CASE e = "HTTPError" -> "URLError"
      [] e = "URLError" -> "OSError"
      [] e = "TimeoutError" -> "OSError"
      [] e = "ConnectionResetError" -> "OSError"
      [] e = "IncompleteRead" -> "HTTPException"
      [] e = "UnicodeDecodeError" -> "ValueError"
      [] e = "JSONDecodeError" -> "ValueError"
      [] e = "KeyError" -> "LookupError"
      [] OTHER -> ""

RECURSIVE IsInstance(_, _)
IsInstance(e, class) ==
    IF e = "" THEN FALSE
    ELSE e = class \/ IsInstance(BaseClass(e), class)

\* versions.py:46  the except clause
CaughtClasses == {"URLError", "OSError", "JSONDecodeError", "KeyError", "TypeError"}

\* versions.py:12  _STABLE_RE = ^v(\d+)\.(\d+)\.(\d+)$ ; tag names are
\* sequences of characters
DigitChars == {"0", "1", "2", "3", "4", "5", "6", "7", "8", "9"}

\* \d+ at the head of str: the longest run of digits (what follows in the
\* pattern is never a digit, so the greedy match is the only one)
RECURSIVE DigitRun(_)
DigitRun(str) ==
    IF str # <<>> /\ Head(str) \in DigitChars
    THEN <<Head(str)>> \o DigitRun(Tail(str))
    ELSE <<>>

Drop(str, n) == SubSeq(str, n + 1, Len(str))

\* _STABLE_RE.match(name): the three groups, or <<>> for None
StableMatch(name) ==
    IF name = <<>> \/ Head(name) # "v" THEN <<>>
    ELSE LET major == DigitRun(Tail(name))
             r1 == Drop(Tail(name), Len(major))
         IN IF major = <<>> \/ r1 = <<>> \/ Head(r1) # "." THEN <<>>
            ELSE LET minor == DigitRun(Tail(r1))
                     r2 == Drop(Tail(r1), Len(minor))
                 IN IF minor = <<>> \/ r2 = <<>> \/ Head(r2) # "." THEN <<>>
                    ELSE LET patch == DigitRun(Tail(r2))
                             r3 == Drop(Tail(r2), Len(patch))
                         IN IF patch = <<>> \/ r3 # <<>> THEN <<>>
                            ELSE <<major, minor, patch>>

DigitValue(d) ==
    CASE d = "0" -> 0 [] d = "1" -> 1 [] d = "2" -> 2 [] d = "3" -> 3 [] d = "4" -> 4
      [] d = "5" -> 5 [] d = "6" -> 6 [] d = "7" -> 7 [] d = "8" -> 8 [] d = "9" -> 9

\* int(digits)
RECURSIVE IntOf(_)
IntOf(digits) ==
    IF digits = <<>> THEN 0
    ELSE 10 * IntOf(SubSeq(digits, 1, Len(digits) - 1)) + DigitValue(digits[Len(digits)])

SortKeyLeadingDigit(name) ==
    LET m == StableMatch(name)
    IN IF m # <<>>
       THEN <<IntOf(<<m[1][1]>>), IntOf(<<m[2][1]>>), IntOf(<<m[3][1]>>)>>
       ELSE <<0, 0, 0>>

\* versions.py:49-51  _sort_key
SortKey(name) ==
    LET m == StableMatch(name)
    IN IF m # <<>> THEN <<IntOf(m[1]), IntOf(m[2]), IntOf(m[3])>> ELSE <<0, 0, 0>>

\* the order of Python tuples of three integers
KeyGeq(x, y) ==
    \/ x[1] > y[1]
    \/ x[1] = y[1] /\ x[2] > y[2]
    \/ x[1] = y[1] /\ x[2] = y[2] /\ x[3] >= y[3]

MinMajor == 14

\* versions.py:36-40  the stable tags of major 14 and later
StableTags(names) ==
    SelectSeq(names, LAMBDA name :
        StableMatch(name) # <<>> /\ IntOf(StableMatch(name)[1]) >= MinMajor)

\* versions.py:53-55  tags.sort(key=_sort_key, reverse=True): newest first,
\* tags of equal key in the order they were collected
RECURSIVE SortNewestFirst(_)
SortNewestFirst(tags) ==
    IF tags = <<>> THEN <<>>
    ELSE LET tops == {i \in DOMAIN tags :
                        \A j \in DOMAIN tags : KeyGeq(SortKey(tags[i]), SortKey(tags[j]))}
             top == CHOOSE i \in tops : \A j \in tops : i <= j
         IN <<tags[top]>> \o
            SortNewestFirst([j \in 1..(Len(tags) - 1) |->
                                IF j < top THEN tags[j] ELSE tags[j + 1]])

Tag(major, minor, patch) == <<"v">> \o major \o <<".">> \o minor \o <<".">> \o patch

\* tag names a page can carry: releases of major 13, 15 and 16, one with a
\* two-digit minor, a pre-release, a name without the v and a two-part name
TagBeta == Tag(<<"1", "6">>, <<"0">>, <<"0">>) \o <<"-", "b", "e", "t", "a", ".", "1">>
TagNoV == Tail(Tag(<<"1", "6">>, <<"1">>, <<"0">>))
TagTwoPart == <<"v", "1", "4", ".", "0">>
PageNames ==
    {<<>>,
     <<Tag(<<"1", "6">>, <<"9">>, <<"0">>), TagBeta, Tag(<<"1", "6">>, <<"1", "0">>, <<"0">>)>>,
     <<Tag(<<"1", "3">>, <<"9">>, <<"0">>), Tag(<<"1", "6">>, <<"7">>, <<"3">>),
       Tag(<<"1", "5">>, <<"2">>, <<"0">>)>>,
     <<TagNoV, TagTwoPart, Tag(<<"1", "6">>, <<"7">>, <<"3">>)>>}

\* one response: a decoded list (full: it holds _PER_PAGE entries), or an
\* exception raised while requesting, reading, decoding or walking it
PageData == [kind : {"data"}, full : BOOLEAN, names : PageNames]
PageRaise == [kind : {"raise"}, exc : Exceptions]

\* the responses of one call: every page but the last is a full one, the
\* last is a list that is not full or an exception
PageSeqs ==
    {q \in UNION {[1..n -> PageData \cup PageRaise] : n \in 1..MaxPages} :
        /\ \A i \in 1..(Len(q) - 1) :
              q[i].kind = "data" /\ q[i].full /\ q[i].names # <<>>
        /\ q[Len(q)].kind = "data" => ~q[Len(q)].full}

DefaultVersion == Tag(<<"1", "6">>, <<"7">>, <<"3">>)

InitVersions ==
    /\ cfg = <<>>
    /\ StagesIdle
    /\ RegisterIdle
    /\ EnvIdle
    /\ LoaderIdle
    /\ PrereqIdle
    /\ pc = "fetch_versions"
    /\ callArgs \in PageSeqs
    /\ callResult = [page |-> 1, tags |-> <<>>]

versionsFrame == <<cfg, trace, lastExit, dockerLocals, siteLocals, registerLocals,
                   envLocals, loaderLocals, prereqLocals, callArgs>>

\* versions.py:24-55  one pass of the loop: request page `page`
FetchPage ==
    /\ pc = "fetch_versions"
    /\ LET p == callArgs[callResult.page]
       IN IF p.kind = "raise"
          THEN IF \E class \in CaughtClasses : IsInstance(p.exc, class)
               THEN /\ callResult' = [versions |-> <<>>, page |-> callResult.page]
                    /\ pc' = "fetched"
                    /\ UNCHANGED exitStatus
               ELSE Exit1 /\ UNCHANGED callResult
          ELSE LET tags == callResult.tags \o StableTags(p.names)
               IN /\ UNCHANGED exitStatus
                  /\ IF p.names = <<>> \/ ~p.full
                     THEN /\ callResult' = [versions |-> SortNewestFirst(tags),
                                               page |-> callResult.page]
                          /\ pc' = "fetched"
                     ELSE /\ callResult' = [page |-> callResult.page + 1, tags |-> tags]
                          /\ pc' = "fetch_versions"
    /\ UNCHANGED versionsFrame

\* configure.py:187-195  the default offered by the version prompt
ConfigureDefault ==
    /\ pc = "fetched"
    /\ callResult' = [versions |-> callResult.versions,
                      page |-> callResult.page,
                      default_version |-> IF callResult.versions # <<>>
                                          THEN callResult.versions[1]
                                          ELSE DefaultVersion]
    /\ pc' = "ask_version"
    /\ UNCHANGED exitStatus
    /\ UNCHANGED versionsFrame

NextVersions ==
    \/ FetchPage
    \/ ConfigureDefault

SpecVersions == InitVersions /\ [][NextVersions]_vars

\* ====================================================== branches

\* A string is a sequence of one-character strings; a branch name is the
\* sequence of its pieces ("version-" followed by digits, or one word).
Digits == {"1", "5"}
Majors == UNION {[1..n -> Digits] : n \in 1..MaxMajorDigits}
Minors == {<<"2">>, <<"1", "0">>}

\* the valid version strings vX.Y.Z, patch 3
Versions == {<<"v">> \o x \o <<".">> \o y \o <<".", "3">> : x \in Majors, y \in Minors}

\* the X of vX.Y.Z
RECURSIVE UpToDot(_)
UpToDot(str) ==
    IF str = <<>> \/ Head(str) = "." THEN <<>>
    ELSE <<Head(str)>> \o UpToDot(Tail(str))

\* utils.version_branch: the derived default branch of vX.Y.Z is version-X
version_branch(version) == <<"version-">> \o UpToDot(Tail(version))

\* what `git ls-remote --heads` prints: lines of tab-separated parts; a head
\* is <sha>\trefs/heads/<name>, anything else (a warning) has one part
HeadLine(name) == <<"sha", [prefix |-> "refs/heads/", name |-> name]>>
NoiseLine == <<"warning: redirecting">>

KnownHeads == {<<"version-", "1", "1">>, <<"version-", "1", "5">>,
               <<"main">>, <<"master">>, <<"develop">>}

Listings ==
    {{HeadLine(name) : name \in heads} \cup noise :
        heads \in SUBSET KnownHeads, noise \in {{}, {NoiseLine}}}

\* apps.py:53  removeprefix("refs/heads/")
RemovePrefix(ref) == IF ref.prefix = "refs/heads/" THEN ref.name ELSE ref

\* apps.py:49-53  the branch names of the listing
Branches(listing) == {RemovePrefix(line[2]) : line \in {l \in listing : Len(l) = 2}}

CandidatesMainFirst(target) == <<<<"main">>, target, <<"master">>, <<"develop">>>>

\* apps.py:55  the candidates in priority order
Candidates(target) == <<target, <<"main">>, <<"master">>, <<"develop">>>>

\* apps.py:36-59  detect_best_branch; "none" is None
detect_best_branch(code, listing, erpnext_version) ==
    IF code # 0 THEN "none"
    ELSE LET cands == Candidates(version_branch(erpnext_version))
             found == {i \in DOMAIN cands : cands[i] \in Branches(listing)}
         IN IF found = {} THEN "none"
            ELSE cands[CHOOSE i \in found : \A j \in found : i <= j]

\* apps.py:21  AppInfo.branch: an override, or None
Overrides == {"none", <<"stable">>}

BranchInputs ==
    [erpnext_version : Versions,
     override : Overrides,
     code : LocalCodes,
     stdout : Listings]

InitBranch ==
    /\ cfg = <<>>
    /\ StagesIdle
    /\ RegisterIdle
    /\ EnvIdle
    /\ LoaderIdle
    /\ PrereqIdle
    /\ pc = "install_extra_apps"
    /\ callArgs \in BranchInputs
    /\ callResult = <<>>

\* site.py:170-172  the registry sets a branch: it is used, nothing is run
BranchFromRegistry ==
    /\ pc = "install_extra_apps"
    /\ callArgs.override # "none"
    /\ callResult' = [detected |-> "not called", branch |-> callArgs.override]
    /\ pc' = "install_app"
    /\ UNCHANGED <<exitStatus, versionsFrame>>

\* site.py:161, 172-177  no branch in the registry: detect, else the default
BranchDetected ==
    /\ pc = "install_extra_apps"
    /\ callArgs.override = "none"
    /\ LET detected == detect_best_branch(callArgs.code, callArgs.stdout,
                                          callArgs.erpnext_version)
       IN callResult' = [detected |-> detected,
                         branch |-> IF detected # "none" THEN detected
                                    ELSE version_branch(callArgs.erpnext_version)]
    /\ pc' = "install_app"
    /\ UNCHANGED <<exitStatus, versionsFrame>>

NextBranch ==
    \/ BranchFromRegistry
    \/ BranchDetected

SpecBranch == InitBranch /\ [][NextBranch]_vars

\* ====================================================== environment file content

Backslash == "\\"
Quote == "\""
Newline == "\n"
Return == "\r"
\* the character U+0060, which a string of this module cannot hold
Backtick == "U+0060"

Chars == {"a", "n", Backslash, Quote, "$", Backtick, Newline, Return}
Values == UNION {[1..n -> Chars] : n \in 0..MaxValueLen}
Emails == {<<"a", "@", "b">>, <<"a", "$", "@", "b">>}

\* env_file.py:17  needs_quoting
NeedsQuoting == {"#", "$", Quote, "'", Backtick, Backslash, "!", "&", "|", ";", "(", ")",
                 " ", "\t", Newline, Return}

\* str.replace for a one-character pattern
RECURSIVE Replace(_, _, _)
Replace(str, ch, by) ==
    IF str = <<>> THEN <<>>
    ELSE (IF Head(str) = ch THEN by ELSE <<Head(str)>>) \o Replace(Tail(str), ch, by)

env_quoteBackslashLast(value) ==
    IF \E i \in DOMAIN value : value[i] \in NeedsQuoting
    THEN <<Quote>>
         \o Replace(Replace(Replace(Replace(Replace(Replace(value,
                Quote, <<Backslash, Quote>>),
                "$", <<Backslash, "$">>),
                Backtick, <<Backslash, Backtick>>),
                Newline, <<Backslash, "n">>),
                Return, <<Backslash, "r">>),
                Backslash, <<Backslash, Backslash>>)
         \o <<Quote>>
    ELSE value

\* env_file.py:12-27  _env_quote
env_quote(value) ==
    IF \E i \in DOMAIN value : value[i] \in NeedsQuoting
    THEN <<Quote>>
         \o Replace(Replace(Replace(Replace(Replace(Replace(value,
                Backslash, <<Backslash, Backslash>>),
                Quote, <<Backslash, Quote>>),
                "$", <<Backslash, "$">>),
                Backtick, <<Backslash, Backtick>>),
                Newline, <<Backslash, "n">>),
                Return, <<Backslash, "r">>)
         \o <<Quote>>
    ELSE value

\* str.lstrip(ch)
RECURSIVE LStrip(_, _)
LStrip(str, ch) ==
    IF str # <<>> /\ Head(str) = ch THEN LStrip(Tail(str), ch) ELSE str

frappe_branchNoStrip(version) == <<"version-">> \o UpToDot(version)

\* build.py:18-21, 39  "version-" + version.split(".")[0].lstrip("v")
frappe_branch(version) == <<"version-">> \o LStrip(UpToDot(version), "v")

EnvContentInputs ==
    [deploy_mode : DeployModes,
     major : Majors,
     minor : Minors,
     db_password : Values,
     letsencrypt_email : Emails]

\* the version string of the inputs
VersionOf(a) == <<"v">> \o a.major \o <<".">> \o a.minor \o <<".", "3">>

\* env_file.py:30-48  the lines KEY=value, in order
build_env_content(a) ==
    << [key |-> "ERPNEXT_VERSION", value |-> VersionOf(a)],
       [key |-> "FRAPPE_VERSION", value |-> version_branch(VersionOf(a))],
       [key |-> "DB_PASSWORD", value |-> env_quote(a.db_password)],
       [key |-> "FRAPPE_SITE_NAME_HEADER", value |-> <<"site_name">>] >>
    \o (IF a.deploy_mode = "local"
        THEN << [key |-> "HTTP_PUBLISH_PORT", value |-> <<"http_port">>],
                [key |-> "LETSENCRYPT_EMAIL", value |-> <<"mail@example.com">>] >>
        ELSE << [key |-> "LETSENCRYPT_EMAIL", value |-> env_quote(a.letsencrypt_email)],
                [key |-> "SITES_RULE", value |-> <<"Host(", Backtick, "domain", Backtick, ")">>] >>)

InitEnvContent ==
    /\ cfg = <<>>
    /\ StagesIdle
    /\ RegisterIdle
    /\ EnvIdle
    /\ LoaderIdle
    /\ PrereqIdle
    /\ pc = "call"
    /\ callArgs \in EnvContentInputs
    /\ callResult = <<>>

\* env_file.py:30-48  _build_env_content
BuildEnvContent ==
    /\ pc = "call"
    /\ callResult' = build_env_content(callArgs)
    /\ pc' = "env_content"
    /\ UNCHANGED <<exitStatus, versionsFrame>>

\* build.py:17-22, 38-44  the add-on branches of apps.json and FRAPPE_BRANCH
BuildImageBranches ==
    /\ pc = "call"
    /\ callResult' = [apps_branch |-> frappe_branch(VersionOf(callArgs)),
                      frappe_branch |-> frappe_branch(VersionOf(callArgs))]
    /\ pc' = "build_image"
    /\ UNCHANGED <<exitStatus, versionsFrame>>

NextEnvContent ==
    \/ BuildEnvContent
    \/ BuildImageBranches

SpecEnvContent == InitEnvContent /\ [][NextEnvContent]_vars

\* ====================================================== hosts file

\* The hosts file is a sequence of pieces of text: addresses, names, blanks
\* and line ends.  No piece's characters run into the next piece's, so one
\* text is inside another exactly when its pieces are.
SiteName == "site"
Loopback == "127.0.0.1"

HostsLines ==
    {<<Loopback, " ", "localhost">>,
     <<Loopback, " ", SiteName>>,
     <<Loopback, "\t", SiteName>>,
     <<Loopback, " ", SiteName, ".bak">>,
     <<"#", " ", Loopback, " ", SiteName>>,
     <<"10.0.0.1", " ", SiteName>>}

RECURSIVE JoinLines(_)
JoinLines(lines) ==
    IF lines = <<>> THEN <<>>
    ELSE IF Len(lines) = 1 THEN lines[1]
    ELSE lines[1] \o <<"\n">> \o JoinLines(Tail(lines))

HostsFiles ==
    {JoinLines(lines) \o end :
        lines \in UNION {[1..n -> HostsLines] : n \in 0..MaxHostsLines},
        end \in {<<>>, <<"\n">>}}

\* open() of the hosts file: readable and writable, readable only (the
\* append raises PermissionError), or not there (the read raises
\* FileNotFoundError)
HostsAccess == {"rw", "ro", "missing"}

HostsInputs == [deploy_mode : DeployModes, access : HostsAccess, content : HostsFiles]

\* needle in text
Contains(text, needle) ==
    \E i \in 1..(Len(text) - Len(needle) + 1) :
        SubSeq(text, i, i + Len(needle) - 1) = needle

\* site.py:337  f"127.0.0.1 {cfg.site_name}" not in hosts_content
HasEntry(content, name) == Contains(content, <<Loopback, " ", name>>)

InitHosts ==
    /\ cfg = <<>>
    /\ StagesIdle
    /\ RegisterIdle
    /\ EnvIdle
    /\ LoaderIdle
    /\ PrereqIdle
    /\ pc = "hosts"
    /\ callArgs \in HostsInputs
    /\ callResult = [content |-> callArgs.content, runs |-> 0, reads |-> 0, appends |-> 0]

\* site.py:320-359  _update_hosts, run up to twice on the same machine
UpdateHostsFile ==
    /\ pc = "hosts"
    /\ callResult.runs < 2
    /\ IF callArgs.deploy_mode # "local"
       THEN /\ callResult' = [callResult EXCEPT !.runs = @ + 1]
            /\ UNCHANGED <<pc, exitStatus>>
       ELSE IF callArgs.access = "missing"
       THEN Exit1 /\ callResult' = [callResult EXCEPT !.runs = @ + 1]
       ELSE IF HasEntry(callResult.content, SiteName) \/ callArgs.access = "ro"
       THEN /\ callResult' = [callResult EXCEPT !.runs = @ + 1, !.reads = @ + 1]
            /\ UNCHANGED <<pc, exitStatus>>
       ELSE /\ callResult' = [content |-> callResult.content
                                            \o <<"\n", Loopback, " ", SiteName, "\n">>,
                              runs |-> callResult.runs + 1,
                              reads |-> callResult.reads + 1,
                              appends |-> callResult.appends + 1]
            /\ UNCHANGED <<pc, exitStatus>>
    /\ UNCHANGED versionsFrame

NextHosts == UpdateHostsFile

SpecHosts == InitHosts /\ [][NextHosts]_vars

\* ====================================================== _run_setup

\* erpnext-setup-wizard.py:39-64.  The stages before the bring-up are one
\* step each, the bring-up is run_docker's own steps with the health poll
\* and the fallback wait as one step, and the bootstrap is run_site's own
\* steps.  callResult holds the executors constructed so far and, per stage
\* called, the executor it was given (its position among those constructed).
\* configurations of the runs: nothing optional; two official add-ons; a
\* custom add-on and a secondary site; a mail relay and a backup
PipelineShapes == {<<0, 0, 0, 0, FALSE, FALSE>>, <<2, 0, 0, 0, FALSE, FALSE>>,
                   <<0, 0, 1, 1, FALSE, FALSE>>, <<0, 0, 0, 0, TRUE, TRUE>>}

PipelineConfigs ==
    {c @@ [deploy_mode |-> mode] :
        c \in {d \in SiteConfigs :
                  <<Len(d.extra_apps), Len(d.community_apps), Len(d.custom_apps),
                    Len(d.extra_sites), d.smtp_host, d.backup_enabled>> \in PipelineShapes},
        mode \in DeployModes}

Sources == {"interactive", "file", "args"}

create_executorAlwaysLocal(c) == "LocalExecutor"

\* ssh.py:84-98  create_executor
create_executor(c) ==
    IF c.deploy_mode = "remote" THEN "SSHExecutor" ELSE "LocalExecutor"

InitPipeline ==
    /\ cfg = <<>>
    /\ StagesIdle
    /\ RegisterIdle
    /\ EnvIdle
    /\ LoaderIdle
    /\ PrereqIdle
    /\ pc = "run_setup"
    /\ callArgs \in PipelineConfigs
    /\ callResult = [executors |-> <<>>, passed |-> <<>>]

pipelineFrame == <<lastExit, dockerLocals, siteLocals, registerLocals, envLocals,
                   loaderLocals, prereqLocals, callArgs>>

Passed(stage) ==
    [callResult EXCEPT !.passed = Append(@, [stage |-> stage,
                                            executor |-> Len(callResult.executors)])]

\* erpnext-setup-wizard.py:41-57  load_config, else run_configure: a
\* validated configuration, exit 1 on a rejected file or argument set, exit
\* 0 when the operator cancels
PipelineConfigure ==
    /\ pc = "run_setup"
    /\ \E source \in Sources, outcome \in {"config", "exit1", "exit0"} :
          /\ outcome = "exit1" => source # "interactive"
          /\ outcome = "exit0" => source = "interactive"
          /\ CASE outcome = "config" ->
                    /\ cfg' = callArgs
                    /\ trace' = Append(trace, Event("configure", "", "", 0))
                    /\ pc' = "create_executor"
                    /\ UNCHANGED exitStatus
               [] outcome = "exit1" -> Exit1 /\ UNCHANGED <<cfg, trace>>
               [] outcome = "exit0" ->
                    /\ exitStatus' = 0
                    /\ pc' = "exited"
                    /\ UNCHANGED <<cfg, trace>>
    /\ UNCHANGED <<callResult, pipelineFrame>>

\* erpnext-setup-wizard.py:59-61  create_executor(cfg), then the call of
\* run_prerequisites(cfg, executor)
PipelineCreateExecutor ==
    /\ pc = "create_executor"
    /\ callResult' =
          [executors |-> Append(callResult.executors, create_executor(cfg)),
           passed |-> Append(callResult.passed,
                             [stage |-> "run_prerequisites",
                              executor |-> Len(callResult.executors) + 1])]
    /\ trace' = Append(trace, Event("create_executor", "", "", 0))
    /\ pc' = "run_prerequisites"
    /\ UNCHANGED <<cfg, exitStatus, pipelineFrame>>

\* erpnext-setup-wizard.py:61-62  run_prerequisites returns or exits 1; on
\* return, the call of run_env_file(cfg, executor)
PipelinePrerequisites ==
    /\ pc = "run_prerequisites"
    /\ trace' = Append(trace, Event("prerequisites", "", "", 0))
    /\ \E returned \in BOOLEAN :
          IF returned
          THEN /\ callResult' = Passed("run_env_file")
               /\ pc' = "run_env_file"
               /\ UNCHANGED exitStatus
          ELSE Exit1 /\ UNCHANGED callResult
    /\ UNCHANGED <<cfg, pipelineFrame>>

\* erpnext-setup-wizard.py:62-63  run_env_file writes the file or fails with
\* exit 1; on return, the call of run_docker(cfg, executor)
PipelineEnvFile ==
    /\ pc = "run_env_file"
    /\ \E written \in BOOLEAN :
          IF written
          THEN /\ trace' = Append(trace, Event("env-file", "", "", 0))
               /\ callResult' = Passed("run_docker")
               /\ pc' = "run_docker"
               /\ UNCHANGED exitStatus
          ELSE Exit1 /\ UNCHANGED <<trace, callResult>>
    /\ UNCHANGED <<cfg, pipelineFrame>>

\* docker.py:138-142 and erpnext-setup-wizard.py:64  _wait_for_healthy as a
\* whole (True, False, or the exception of a status line that is no JSON
\* object), the timed wait when it returned False, then the call of
\* run_site(cfg, executor)
PipelineWaitHealthy ==
    /\ pc = "health_start"
    /\ \E outcome \in {"healthy", "timeout", "raise"} :
          IF outcome = "raise"
          THEN /\ trace' = Append(trace, Event("poll", outcome, "", 0))
               /\ Exit1
               /\ UNCHANGED callResult
          ELSE /\ trace' = IF outcome = "healthy"
                           THEN Append(trace, Event("poll", outcome, "", 0))
                           ELSE trace \o <<Event("poll", outcome, "", 0),
                                           Event("wait", "", "", WaitTime(cfg.deploy_mode))>>
               /\ callResult' = Passed("run_site")
               /\ pc' = "run_site"
               /\ UNCHANGED exitStatus
    /\ UNCHANGED <<cfg, pipelineFrame>>

NextPipeline ==
    \/ PipelineConfigure
    \/ PipelineCreateExecutor
    \/ PipelinePrerequisites
    \/ PipelineEnvFile
    \/ DockerBuild
    \/ DockerOverlay
    \/ DockerDown
    \/ DockerUp
    \/ PipelineWaitHealthy
    \/ NextSite

SpecPipeline == InitPipeline /\ [][NextPipeline]_vars

\* ====================================================== passwords

\* passwords by length: only the number of characters is looked at
Passwords == {[i \in 1..n |-> "*"] : n \in 0..MaxPasswordLen}

PasswordInputs ==
    [source : Sources, db_password : Passwords, admin_password : Passwords]

\* prompts.py:130  min_length: int = 6
MinLength == 6

\* prompts.py:137-140  _validate of ask_password_field
PasswordValid(val) == Len(val) >= MinLength

\* config_loader.py:167-170  "db_password is required", "admin_password is
\* required"
PasswordErrors(c) ==
    (IF c.db_password = <<>> THEN <<"db_password is required">> ELSE <<>>)
    \o (IF c.admin_password = <<>> THEN <<"admin_password is required">> ELSE <<>>)

InitPasswords ==
    /\ cfg = <<>>
    /\ StagesIdle
    /\ RegisterIdle
    /\ EnvIdle
    /\ LoaderIdle
    /\ PrereqIdle
    /\ pc = "load_config"
    /\ callArgs \in PasswordInputs
    /\ callResult = <<>>

\* configure.py:261-272; prompts.py:126-172  the two password prompts: an
\* entry the validator rejects is not taken and the prompt stays open for
\* another entry
AskPasswords ==
    /\ pc = "load_config"
    /\ callArgs.source = "interactive"
    /\ IF PasswordValid(callArgs.db_password) /\ PasswordValid(callArgs.admin_password)
       THEN /\ cfg' = [db_password |-> callArgs.db_password,
                       admin_password |-> callArgs.admin_password]
            /\ pc' = "create_executor"
       ELSE /\ pc' = "ask_password"
            /\ UNCHANGED cfg
    /\ UNCHANGED <<callResult, exitStatus, trace, pipelineFrame>>

\* config_loader.py:160-199, 238-267, 311-340  a file or a complete argument
\* list: Config(...) takes the passwords as given and _validate_config
\* checks that they are not empty
LoadPasswords ==
    /\ pc = "load_config"
    /\ callArgs.source \in {"file", "args"}
    /\ LET c == [db_password |-> callArgs.db_password,
                 admin_password |-> callArgs.admin_password]
       IN /\ callResult' = PasswordErrors(c)
          /\ IF PasswordErrors(c) # <<>>
             THEN Exit1 /\ UNCHANGED cfg
             ELSE /\ cfg' = c
                  /\ pc' = "create_executor"
                  /\ UNCHANGED exitStatus
    /\ UNCHANGED <<trace, pipelineFrame>>

NextPasswords ==
    \/ AskPasswords
    \/ LoadPasswords

SpecPasswords == InitPasswords /\ [][NextPasswords]_vars

\* ====================================================== custom add-on names

\* URLs are sequences of characters: a fixed host and organisation, a
\* repository name, and an ending
UrlBase == <<"h", "t", "t", "p", "s", ":", "/", "/", "h", "/", "o", "/">>
RepoChars == {"w", "e", "t", "g", "."}
RepoNames == UNION {[1..n -> RepoChars] : n \in 1..MaxRepoLen}
DotGit == <<".", "g", "i", "t">>
UrlEndings == {<<>>, DotGit, <<"/">>, DotGit \o <<"/">>}

\* --custom-apps takes "url" or "url:branch"
AddOnInputs ==
    [source : Sources, repo : RepoNames, ending : UrlEndings, branch : {<<>>, <<"d", "e", "v">>}]

UrlOf(a) == UrlBase \o a.repo \o a.ending

\* str.rstrip(chars): the trailing characters that are in the set `chars`
\* are removed
RECURSIVE RStrip(_, _)
RStrip(str, chars) ==
    IF str # <<>> /\ str[Len(str)] \in chars
    THEN RStrip(SubSeq(str, 1, Len(str) - 1), chars)
    ELSE str

\* str.split("/")[-1]
RECURSIVE LastSegment(_)
LastSegment(str) ==
    IF str = <<>> \/ str[Len(str)] = "/" THEN <<>>
    ELSE Append(LastSegment(SubSeq(str, 1, Len(str) - 1)), str[Len(str)])

\* str.rfind(ch): the last position of ch, 0 when there is none
RFind(str, ch) ==
    IF \E i \in DOMAIN str : str[i] = ch
    THEN CHOOSE i \in DOMAIN str : str[i] = ch /\ \A j \in (i + 1)..Len(str) : str[j] # ch
    ELSE 0

\* config_loader.py:235, 307; configure.py:348
\* url.rstrip("/").rstrip(".git").split("/")[-1]
RepoName(url) == LastSegment(RStrip(RStrip(url, {"/"}), {".", "g", "i", "t"}))

\* config_loader.py:289-306  one pair of --custom-apps
ParsePair(pair) ==
    LET last_colon == RFind(pair, ":")
        potential_branch == SubSeq(pair, last_colon + 1, Len(pair))
    IN IF last_colon # 0 /\ potential_branch # <<>>
          /\ \A i \in DOMAIN potential_branch : potential_branch[i] # "/"
       THEN [url |-> SubSeq(pair, 1, last_colon - 1), branch |-> potential_branch]
       ELSE [url |-> pair, branch |-> <<"m", "a", "i", "n">>]

InitAddOn ==
    /\ cfg = <<>>
    /\ StagesIdle
    /\ RegisterIdle
    /\ EnvIdle
    /\ LoaderIdle
    /\ PrereqIdle
    /\ pc = "custom_apps"
    /\ callArgs \in AddOnInputs
    /\ callResult = <<>>

CustomApp(url, branch) == [url |-> url, branch |-> branch, name |-> RepoName(url)]

\* configure.py:330-351  the URL and branch prompts
ConfigureCustomApp ==
    /\ pc = "custom_apps"
    /\ callArgs.source = "interactive"
    /\ callResult' = CustomApp(UrlOf(callArgs),
                               IF callArgs.branch = <<>> THEN <<"m", "a", "i", "n">>
                               ELSE callArgs.branch)
    /\ pc' = "configured"
    /\ UNCHANGED <<exitStatus, versionsFrame>>

\* config_loader.py:228-236  an entry of custom_apps in the file
YamlCustomApp ==
    /\ pc = "custom_apps"
    /\ callArgs.source = "file"
    /\ callResult' = CustomApp(UrlOf(callArgs),
                               IF callArgs.branch = <<>> THEN <<"m", "a", "i", "n">>
                               ELSE callArgs.branch)
    /\ pc' = "configured"
    /\ UNCHANGED <<exitStatus, versionsFrame>>

\* config_loader.py:283-309  a pair of --custom-apps
ArgsCustomApp ==
    /\ pc = "custom_apps"
    /\ callArgs.source = "args"
    /\ LET pair == UrlOf(callArgs)
                   \o (IF callArgs.branch = <<>> THEN <<>> ELSE <<":">> \o callArgs.branch)
           p == ParsePair(pair)
       IN callResult' = CustomApp(p.url, p.branch)
    /\ pc' = "configured"
    /\ UNCHANGED <<exitStatus, versionsFrame>>

\* site.py:86-150, 227-255  _install_app(app["name"], ...): what the
\* commands of the add-on are given
InstallCustomApp ==
    /\ pc = "configured"
    /\ callResult' = [get_app |-> [source |-> callResult.url, branch |-> callResult.branch],
                      pip_install |-> callResult.name,
                      register |-> callResult.name,
                      install_app |-> callResult.name]
    /\ pc' = "installed"
    /\ UNCHANGED <<exitStatus, versionsFrame>>

NextAddOn ==
    \/ ConfigureCustomApp
    \/ YamlCustomApp
    \/ ArgsCustomApp
    \/ InstallCustomApp

SpecAddOn == InitAddOn /\ [][NextAddOn]_vars

\* ====================================================== run_upgrade

UpgradeVersions == {"v15.2.0", "v16.7.3"}

\* --version given or not, --ssh-host given or not, and the ERPNEXT_VERSION
\* line of the .env found on the machine ("unknown": no such line)
UpgradeInputs ==
    [version : UpgradeVersions \cup {""},
     ssh_host : BOOLEAN,
     env_version : UpgradeVersions \cup {"unknown"}]

InitUpgrade ==
    /\ cfg = <<>>
    /\ StagesIdle
    /\ RegisterIdle
    /\ EnvIdle
    /\ LoaderIdle
    /\ PrereqIdle
    /\ pc = "run_upgrade"
    /\ callArgs \in UpgradeInputs
    /\ callResult = <<>>

upgradeFrame == <<cfg, dockerLocals, siteLocals, registerLocals, envLocals,
                  loaderLocals, prereqLocals, callArgs>>

\* upgrade.py:14-25, 49-53  cat .env; without it every key is missing
UpgradeReadEnv ==
    /\ pc = "run_upgrade"
    /\ \E code \in ExitCodes :
          /\ Issue("cat-env", "", "", code)
          /\ callResult' = [current_version |-> IF code # 0 THEN "unknown"
                                                ELSE callArgs.env_version]
    /\ pc' = "select_version"
    /\ UNCHANGED <<exitStatus, upgradeFrame>>

\* upgrade.py:56-69  the target is args.version or the operator's choice;
\* nothing is done when it is the current version
UpgradeSelect ==
    /\ pc = "select_version"
    /\ \E choice \in (IF callArgs.version # "" THEN {callArgs.version}
                      ELSE UpgradeVersions \cup {"cancel"}) :
          IF choice = "cancel"
          THEN /\ exitStatus' = 0
               /\ pc' = "exited"
               /\ UNCHANGED callResult
          ELSE /\ callResult' = [current_version |-> callResult.current_version,
                                 target_version |-> choice]
               /\ pc' = IF choice = callResult.current_version THEN "returned" ELSE "confirm"
               /\ UNCHANGED exitStatus
    /\ UNCHANGED <<trace, lastExit, upgradeFrame>>

\* upgrade.py:75-76  confirm_action
UpgradeConfirm ==
    /\ pc = "confirm"
    /\ \E answer \in {"yes", "no", "cancel"} :
          /\ trace' = Append(trace, Event("confirm", answer, "", 0))
          /\ CASE answer = "yes" -> pc' = "backup" /\ UNCHANGED exitStatus
               [] answer = "no" -> pc' = "returned" /\ UNCHANGED exitStatus
               [] answer = "cancel" -> exitStatus' = 0 /\ pc' = "exited"
    /\ UNCHANGED <<lastExit, callResult, upgradeFrame>>

\* upgrade.py:81-112  the commands after the confirmation, in order
UpgradeSteps == <<"backup", "sed-erpnext", "sed-frappe", "pull", "up", "migrate">>

UpgradeStepAt(p) == CHOOSE i \in DOMAIN UpgradeSteps : UpgradeSteps[i] = p

\* upgrade.py:78-119  one command; its return code is not looked at (the
\* code of migrate only selects the message)
UpgradeStep ==
    /\ \E i \in DOMAIN UpgradeSteps : UpgradeSteps[i] = pc
    /\ \E code \in ExitCodes : Issue(pc, callResult.target_version, "", code)
    /\ pc' = IF UpgradeStepAt(pc) = Len(UpgradeSteps) THEN "returned"
             ELSE UpgradeSteps[UpgradeStepAt(pc) + 1]
    /\ UNCHANGED <<exitStatus, callResult, upgradeFrame>>

NextUpgrade ==
    \/ UpgradeReadEnv
    \/ UpgradeSelect
    \/ UpgradeConfirm
    \/ UpgradeStep

SpecUpgrade == InitUpgrade /\ [][NextUpgrade]_vars

\* ====================================================== claims: bring-up

\* A status probe shows every service running: exit 0, at least one line,
\* every line a JSON object whose State is "running".
AllRunning(code, lines) ==
    /\ code = 0
    /\ Len(lines) > 0
    /\ \A i \in DOMAIN lines : IsObject(lines[i]) /\ StateOf(lines[i]) = "running"

\* A status probe of one of the kinds that must keep the poll going: non-zero
\* exit, empty output, a line that is not JSON, or a service in another state.
NotConverged(code, lines) ==
    \/ code # 0
    \/ lines = <<>>
    \/ \E i \in DOMAIN lines : ~IsJson(lines[i])
    \/ \E i \in DOMAIN lines : IsObject(lines[i]) /\ StateOf(lines[i]) # "running"

\* C1: a failed `down` ends the process with status 1 before `up` is issued;
\* a failed `up` ends it with status 1 before any status probe, fixed wait
\* or bootstrap step; nothing is issued once the process has ended.
C1_FatalTeardownStart ==
    [][ /\ (LastCmd' = "down" /\ lastExit' # 0) =>
              (pc' = "exited" /\ exitStatus' = 1 /\ Count("up")' = 0)
        /\ (LastCmd' = "up" /\ lastExit' # 0) =>
              (pc' = "exited" /\ exitStatus' = 1
               /\ Count("ps")' = 0 /\ Count("sleep")' = 0 /\ Count("wait")' = 0)
        /\ (pc = "exited" => pc' = "exited" /\ trace' = trace) ]_vars

C1_Witness ==
    pc = "exited" /\ exitStatus = 1 /\ LastCmd = "up" /\ lastExit # 0 /\ Count("down") = 1

\* C2: right after a status probe, success is reported if and only if the
\* probe showed every service running, and a probe with non-zero exit, empty
\* output, an unparsable line or a service in another state is followed by
\* the 5-second sleep (polling continues) with the process still running.
C2_SuccessIffAllRunning ==
    LastCmd = "ps" =>
        /\ (healthy = "true") <=> AllRunning(lastExit, stdout)
        /\ NotConverged(lastExit, stdout) => (pc = "poll_sleep" /\ exitStatus = -1)

\* C3: while every probe so far has failed the poll is not left before the
\* budget is spent: probes and 5-second sleeps alternate, no probe starts at
\* or after 120 seconds, the poll then reports timeout, and run_docker does
\* exactly one fixed wait (35 s remote, 25 s otherwise) and returns.
ProbesAndSleepsAlternate ==
    \A i \in DOMAIN trace :
        /\ (trace[i].cmd = "ps" /\ i < Len(trace) /\ trace[i + 1].cmd # "wait") =>
              (trace[i + 1].cmd = "sleep" /\ trace[i + 1].n = PollInterval)
        /\ (trace[i].cmd = "sleep" /\ i < Len(trace)) =>
              trace[i + 1].cmd \in {"ps", "wait"}

C3_AllProbesFailTimeout ==
    /\ pc = "poll_probe" => now - start < HealthTimeout
    /\ (allFailed /\ Count("ps") > 0) =>
          /\ pc # "exited" /\ exitStatus = -1
          /\ healthy # "true"
          /\ ProbesAndSleepsAlternate
          /\ now - start >= PollInterval * Count("sleep")
          /\ pc \in {"poll_done", "run_site"} =>
                (healthy = "false" /\ now - start >= HealthTimeout)
          /\ pc = "run_site" =>
                /\ Count("wait") = 1
                /\ Last(trace) =
                     Event("wait", "", "", IF cfg.deploy_mode = "remote" THEN 35 ELSE 25)
          /\ pc # "run_site" => Count("wait") = 0

C3_Witness ==
    /\ pc = "run_site" /\ allFailed /\ cfg.deploy_mode = "remote"
    /\ healthy = "false" /\ Count("ps") > 1 /\ Last(trace).n = 35

\* C4: a probe that shows every service running ends the poll at once: it
\* is the last probe, the poll returns success after one 5-second sleep
\* between each two probes, and the fixed wait is not performed.
C4_SuccessStopsPolling ==
    /\ (LastCmd = "ps" /\ AllRunning(lastExit, stdout)) =>
          (healthy = "true" /\ pc \in {"poll_done", "run_site"})
    /\ healthy = "true" =>
          /\ LastCmd = "ps"
          /\ AllRunning(lastExit, stdout)
          /\ Count("sleep") = Count("ps") - 1
          /\ ProbesAndSleepsAlternate
          /\ Count("wait") = 0
          /\ exitStatus = -1

C4_Witness ==
    /\ pc = "run_site" /\ healthy = "true"
    /\ Count("ps") = 3 /\ Count("sleep") = 2 /\ Count("wait") = 0

\* C5: whatever a status probe returns, the poll does not end the process:
\* once a probe has been issued the process is still running.
C5_PollNeverAborts ==
    Count("ps") > 0 => (pc # "exited" /\ exitStatus = -1)

\* C6: bring-up terminates, in an abort or by handing over to bootstrap,
\* after at most 24 status probes and at most one fixed wait.  Stated for
\* finite runs: every step moves forward (it issues something or advances
\* to a later position), the number of things issued is bounded, and no
\* state short of the end is stuck.
MaxProbes == HealthTimeout \div PollInterval

Position ==
    CASE pc = "run_docker" -> 0
      [] pc = "overlay" -> 1
      [] pc = "down" -> 2
      [] pc = "up" -> 3
      [] pc = "health_start" -> 4
      [] pc = "poll_check" -> 5
      [] pc = "poll_probe" -> 6
      [] pc = "poll_sleep" -> 7
      [] pc = "poll_done" -> 8
      [] OTHER -> 9

Progress == 3 * Len(trace) + Position

C6_BringUpTerminates ==
    /\ [][Progress' > Progress]_vars
    /\ [](/\ Count("ps") <= MaxProbes
          /\ Count("sleep") <= MaxProbes
          /\ Count("wait") <= 1
          /\ Len(trace) <= 2 * MaxProbes + 5
          /\ (~Finished => ENABLED <<NextDocker>>_vars))

C6_Witness ==
    pc = "run_site" /\ Count("ps") = MaxProbes /\ Count("wait") = 1

\* ====================================================== claims: bootstrap

Range(q) == {q[i] : i \in DOMAIN q}

\* attempts to create the primary site, and operator answers, so far
PrimaryAttempts ==
    {i \in DOMAIN trace : trace[i].cmd = "new-site" /\ trace[i].site = PrimarySite}
Answers(a) == {i \in DOMAIN trace : trace[i].cmd = "confirm" /\ trace[i].arg = a}

\* the primary site exists: the run is past the creation loop
SiteCreated == Count("enable-scheduler") > 0

\* sub-pipeline commands issued so far for add-on a on the primary site
IssuedSteps(a) ==
    {trace[i].cmd : i \in {j \in DOMAIN trace :
        /\ trace[j].arg = a
        /\ trace[j].site = PrimarySite
        /\ trace[j].cmd \in Range(StepCmd)}}

FailedApps == Range(failed[1]) \cup Range(failed[2]) \cup Range(failed[3])

\* the last thing issued was a sub-pipeline command and it exited non-zero
StepJustFailed ==
    /\ trace # <<>>
    /\ Last(trace).cmd \in Range(StepCmd)
    /\ Last(trace).site = PrimarySite
    /\ lastExit # 0

\* C7: the first creation command opens the stage; every later one directly
\* follows a "yes" to the retry prompt, which directly follows a failed
\* attempt; a "no" ends the process with status 1 and is the last thing that
\* happens; once the site is created, attempts = "yes" answers + 1.
C7_RetryOnlyOnConfirm ==
    /\ \A i \in PrimaryAttempts :
          i > 1 => (/\ trace[i - 1].cmd = "confirm" /\ trace[i - 1].arg = "yes"
                    /\ i - 2 \in PrimaryAttempts)
    /\ \A i \in DOMAIN trace :
          trace[i].cmd = "confirm" => (i > 1 /\ i - 1 \in PrimaryAttempts)
    /\ pc = "create_retry" => (LastCmd = "new-site" /\ lastExit # 0)
    /\ \A i \in Answers("no") :
          i = Len(trace) /\ pc = "exited" /\ exitStatus = 1
    /\ SiteCreated =>
          /\ Cardinality(PrimaryAttempts) = Cardinality(Answers("yes")) + 1
          /\ Answers("no") = {} /\ Answers("cancel") = {}

C7_Witness ==
    /\ pc = "scheduler" /\ lastExit = 0
    /\ Cardinality(PrimaryAttempts) = 2 /\ Cardinality(Answers("yes")) = 1

\* C8: when any of the six sub-pipeline commands exits non-zero, the add-on
\* is reported failed, no later step of it is issued, and the run goes on
\* with the next add-on.
C8_EveryStepShortCircuits ==
    StepJustFailed =>
        /\ Last(trace).arg \in FailedApps
        /\ ~(pc = "app_step" /\ AppList(cat)[ai] = Last(trace).arg)
        /\ pc # "exited"

\* C9: when install-app on the primary site exits non-zero the add-on joins
\* the failed list at once and is not continued; an add-on on the failed
\* list never got a later step than the one that failed (so neither build
\* nor asset copy after a failed step 4); every step is issued at most once;
\* the category's count is the length of its list minus its failed add-ons.
StepsUpTo(n) == {StepCmd[j] : j \in 1..n}

C9_FailedInstallSkipsBuild ==
    /\ (StepJustFailed /\ Last(trace).cmd = "install-app") =>
          /\ Last(trace).arg \in FailedApps
          /\ IssuedSteps(Last(trace).arg) = StepsUpTo(4)
          /\ ~(pc = "app_step" /\ AppList(cat)[ai] = Last(trace).arg)
    /\ \A a \in FailedApps :
          /\ IssuedSteps(a) \in {StepsUpTo(1), StepsUpTo(2), StepsUpTo(4), StepsUpTo(5)}
          /\ "copy-assets" \notin IssuedSteps(a)
    /\ LET steps == SelectSeq(trace, LAMBDA e : e.cmd \in Range(StepCmd))
       IN Len(steps) = Cardinality(Range(steps))
    /\ \A c \in 1..3 :
          /\ Range(failed[c]) \subseteq Range(AppList(c))
          /\ Len(failed[c]) = Cardinality(Range(failed[c]))
          /\ counts[c] >= 0 =>
                counts[c] = Cardinality(Range(AppList(c)) \ Range(failed[c]))

C9_Witness ==
    \E c \in 1..3 :
        /\ counts[c] >= 0
        /\ failed[c] # <<>>
        /\ IssuedSteps(failed[c][1]) = StepsUpTo(4)
        /\ counts[c] = Len(AppList(c)) - 1

\* C10: once the add-on stage is over, step 1 has been issued for every
\* configured add-on in list order (official, community, custom); the count
\* of each category is the number of its add-ons that ran through step 6;
\* and after the primary site exists the run is never ended before the
\* completion summary.
FetchedApps == SelectSeq(trace, LAMBDA e : e.cmd = "get-app")

C10_AllAddOnsAttempted ==
    /\ installed >= 0 =>
          /\ Len(FetchedApps) = Len(AllApps)
          /\ \A i \in DOMAIN AllApps : FetchedApps[i].arg = AllApps[i]
    /\ \A c \in 1..3 :
          counts[c] >= 0 =>
             counts[c] = Cardinality({a \in Range(AppList(c)) : "copy-assets" \in IssuedSteps(a)})
    /\ SiteCreated => pc # "exited"

\* ====================================================== claims: later stages

\* positions in the history of the given command
At(c) == {i \in DOMAIN trace : trace[i].cmd = c}

\* the run is past the restart decision of run_site
RestartDecided ==
    pc \in {"smtp", "smtp_cmd", "backup", "backup_cmd", "verify", "hosts",
            "show_done", "done"}
       \/ Count("doctor") > 0

\* add-ons whose sub-pipeline returned success
InstalledApps == {a \in Range(AllApps) : "copy-assets" \in IssuedSteps(a)}

LinesEqual(f, name) == Cardinality({i \in DOMAIN f.lines : f.lines[i] = <<name>>})

\* C12: after a run of the register step a further run changes nothing, and
\* a run on a manifest with at most one line equal to the name leaves
\* exactly one such line.
C12_RegisterIdempotent ==
    [][ regRuns' = regRuns + 1 =>
           /\ Register(manifest', regName) = manifest'
           /\ LinesEqual(manifest, regName) <= 1 => LinesEqual(manifest', regName) = 1
      ]_vars

\* C13: an install-app command on a secondary site names only add-ons whose
\* sub-pipeline on the primary site succeeded, and once the secondary
\* installs are over every such add-on has one on every secondary site.
C13_SecondaryOnlyInstalled ==
    /\ \A i \in DOMAIN trace :
          (trace[i].cmd = "install-app" /\ trace[i].site # PrimarySite) =>
              (trace[i].arg \in InstalledApps /\ trace[i].arg \notin FailedApps)
    /\ (pc = "restart" \/ RestartDecided) =>
          \A site \in Range(cfg.extra_sites) : \A a \in InstalledApps :
              \E i \in DOMAIN trace : trace[i] = Event("install-app", a, site, 0)

\* the set-config commands of one integration, in the order issued
ConfigCmds(keys) ==
    SelectSeq(trace, LAMBDA e : e.cmd = "set-config" /\ e.arg \in Range(keys))

KeysOf(q) == [i \in DOMAIN q |-> q[i].arg]

PastSmtp == pc \in {"backup", "backup_cmd", "verify", "hosts", "show_done", "done"}
               \/ Count("doctor") > 0
PastBackup == pc \in {"verify", "hosts", "show_done", "done"} \/ Count("doctor") > 0

\* a step that issues a set-config command for one of the keys
ConfigStep(keys) ==
    /\ Len(trace') = Len(trace) + 1
    /\ Last(trace').cmd = "set-config"
    /\ Last(trace').arg \in Range(keys)

\* what the step must do to the integration's failed flag and report
ConfigStepMarks(keys, name) ==
    /\ intFailed' = ((Last(trace').arg # keys[1] /\ intFailed) \/ lastExit' # 0)
    /\ reports'[name] =
          IF Last(trace').arg # keys[Len(keys)] THEN reports[name]
          ELSE IF intFailed' THEN "failed" ELSE "ok"

\* C14: set-config commands of the mail relay are issued only with a mail
\* host configured and those of the backup only with backup enabled; past
\* each integration its five commands have been issued once each in order,
\* whatever their exit codes, or none if it is not configured; the failed
\* flag is cleared at the first command, raised by every non-zero exit and
\* never lowered, and the report after the fifth command is "failed"
\* exactly when the flag is raised; a set-config command never ends the run.
C14_IntegrationsFailSoft ==
    /\ [](/\ ConfigCmds(SmtpKeys) # <<>> => cfg.smtp_host
          /\ ConfigCmds(BackupKeys) # <<>> => cfg.backup_enabled
          /\ PastSmtp =>
                /\ KeysOf(ConfigCmds(SmtpKeys)) = (IF cfg.smtp_host THEN SmtpKeys ELSE <<>>)
                /\ (reports.smtp = "unset") <=> ~cfg.smtp_host
          /\ PastBackup =>
                /\ KeysOf(ConfigCmds(BackupKeys)) = (IF cfg.backup_enabled THEN BackupKeys ELSE <<>>)
                /\ (reports.backup = "unset") <=> ~cfg.backup_enabled
          /\ LastCmd = "set-config" =>
                (exitStatus = -1 /\ pc \in {"smtp_cmd", "backup", "backup_cmd", "verify"}))
    /\ [][/\ ConfigStep(SmtpKeys) => ConfigStepMarks(SmtpKeys, "smtp")
          /\ ConfigStep(BackupKeys) => ConfigStepMarks(BackupKeys, "backup")]_vars

C14_Witness ==
    /\ pc = "verify"
    /\ reports.smtp = "failed" /\ reports.backup = "ok"
    /\ lastExit = 0
    /\ Len(ConfigCmds(SmtpKeys)) = 5 /\ Len(ConfigCmds(BackupKeys)) = 5

\* a step that issues the given command for the primary site
Issues(c) ==
    /\ Len(trace') = Len(trace) + 1
    /\ Last(trace').cmd = c
    /\ Last(trace').site = PrimarySite

PrimarySchedulers ==
    {i \in At("enable-scheduler") : trace[i].site = PrimarySite}

\* events of the history that are not executor commands
NotCommands == {"confirm", "ls-remote", "hosts", "summary"}

\* C15: enable-scheduler for the primary site is issued at most once, directly
\* after a new-site command that exited 0, and has been issued once the run
\* is past site creation; whatever enable-scheduler or doctor exit with, the
\* run goes to the next stage with no exit status set; doctor is issued at
\* most once, no executor command follows it, and a completed run has issued
\* it and ends with the completion summary.
C15_SchedulerAndDoctorFailSoft ==
    /\ [](/\ Cardinality(PrimarySchedulers) <= 1
          /\ \A i \in PrimarySchedulers :
                i > 1 /\ trace[i - 1] = Event("new-site", "", PrimarySite, 0)
          /\ pc \notin {"run_site", "create_site", "create_retry", "scheduler", "exited"}
                => Cardinality(PrimarySchedulers) = 1
          /\ Count("doctor") <= 1
          /\ \A i \in At("doctor") : \A j \in DOMAIN trace :
                j > i => trace[j].cmd \in NotCommands
          /\ pc = "done" => (Count("doctor") = 1 /\ LastCmd = "summary"))
    /\ [][/\ Issues("enable-scheduler") =>
                (LastCmd = "new-site" /\ lastExit = 0 /\ pc' = "extra_site" /\ exitStatus' = -1)
          /\ Issues("doctor") => (pc' = "hosts" /\ exitStatus' = -1)]_vars

C15_Witness ==
    /\ pc = "hosts"
    /\ LastCmd = "doctor" /\ lastExit # 0
    /\ Count("restart") = 1
    /\ Cardinality(PrimaryAttempts) = 2

\* C16: whatever happens to the hosts-file registration, the run goes on to
\* the completion summary and the exit status is not made non-zero.
C16_HostsNeverAborts ==
    Count("hosts") > 0 =>
        /\ pc \in {"show_done", "done"}
        /\ exitStatus \in {-1, 0}
        /\ pc = "done" => LastCmd = "summary"

\* C17: in a run that can be a remote one, once an executor call has come
\* back with the transport unreachable the run has ended with a non-zero
\* exit status, so that nothing is issued afterwards and the failure is not
\* booked as a failed add-on.
C17_TransportFailureTerminates ==
    ("remote" \in ModeChoices /\ trace # <<>> /\ lastExit = SshUnreachable) =>
        /\ pc = "exited"
        /\ exitStatus \notin {-1, 0}
        /\ Last(trace).arg \notin FailedApps

\* ====================================================== claims: environment file

ComposeCmds == {"down", "up", "ps", "docker-build"}

UploadFailed == LastCmd = "upload" /\ lastExit # 0

\* C18: only a remote run uploads; once the transfer has exited non-zero the
\* run is at the pending exception, has exited, or was killed, and never
\* enters run_docker; the pending exception ends in exit status 1 with the
\* temporary file removed; no compose command is in the history.
C18_UploadFailureIsFatal ==
    /\ [](/\ Count("upload") > 0 => cfg.deploy_mode = "remote"
          /\ UploadFailed =>
                /\ pc \in {"env_finally_raise", "exited", "killed"}
                /\ \A i \in DOMAIN trace : trace[i].cmd \notin ComposeCmds
          /\ (UploadFailed /\ pc = "exited") =>
                (exitStatus = 1 /\ envTmp = "absent"))
    /\ [][(UploadFailed /\ pc = "env_finally_raise" /\ pc' # "killed") =>
             (pc' = "exited" /\ exitStatus' = 1 /\ envTmp' = "absent" /\ trace' = trace)]_vars

C18_Witness ==
    /\ pc = "exited" /\ exitStatus = 1
    /\ UploadFailed
    /\ cfg.deploy_mode = "remote"
    /\ envTmp = "absent"

\* the environment file holds its complete prior content (or is still
\* missing) or the complete new content
TargetWhole == envTarget \in PriorContents \cup {"new"}

\* the local way of writing, temporary file then rename, keeps it whole
LocalWriteAtomic == cfg.deploy_mode # "remote" => TargetWhole

\* C19: in every deploy mode, when the process is killed during the
\* environment-file step the environment file is whole.
C19_EnvFileWriteAtomic == pc = "killed" => TargetWhole

\* ====================================================== claims: configuration

\* the fields the configuration lacks: required ones absent or empty, and
\* the mode-specific ones absent in a mode that needs them
Lacking(d) ==
    {RequiredKeys[i] : i \in {j \in DOMAIN RequiredKeys : d[RequiredKeys[j]] # "set"}}
       \cup {key \in Range(ModeRequired(ModeOf(d))) : d[key] # "set"}

AbsentKeys(d) ==
    {RequiredKeys[i] : i \in {j \in DOMAIN RequiredKeys : d[RequiredKeys[j]] = "absent"}}

Loaded == pc # "load_config"

\* the claim's cases: a required key is absent, or the contact e-mail is
\* absent in production or remote mode
ClaimedFatal(d) ==
    \/ AbsentKeys(d) # {}
    \/ ModeOf(d) \in {"production", "remote"} /\ d.letsencrypt_email = "absent"

C21_ValidatedShape ==
    pc = "create_executor" =>
        /\ cfg.site_name = "valid"
        /\ cfg.erpnext_version = "valid"
        /\ cfg.deploy_mode \in {"production", "remote"} =>
              cfg.domain = "valid" /\ cfg.letsencrypt_email # "empty"
        /\ cfg.deploy_mode = "remote" => cfg.ssh_host # "empty"

\* ====================================================== claims: whole run

\* the operator pressed the interrupt key while the retry prompt was
\* waiting: questionary's ask() returns None, recorded as answer "cancel"
InterruptedAtPrompt ==
    trace # <<>> /\ Last(trace).cmd = "confirm" /\ Last(trace).arg = "cancel"

SideEffectIssued == \E i \in DOMAIN trace : trace[i].cmd \notin {"confirm", "summary"}

\* C22: the process exits with status 130 whenever the operator interrupts
\* it, a waiting prompt included, and with status 0 only when the run
\* reached the completion summary or the operator cancelled before any
\* side-effecting command was issued.
C22_ExitStatusContract ==
    /\ InterruptedAtPrompt => exitStatus = 130
    /\ exitStatus = 0 => (pc = "done" \/ ~SideEffectIssued)

\* ====================================================== claims: pure functions

\* C23: the file list is the base file, then the postgres overlay when
\* db_type is postgres and the mariadb overlay otherwise, then the cache
\* overlay, then the noproxy overlay iff the mode is local and the https
\* overlay iff it is production or remote, then the backup overlay iff a
\* backup schedule is set, then the management-UI overlay iff enabled; and
\* nothing else.  Defaults in local mode give exactly the four-file list.
C23_ComposeFileOrder ==
    pc = "returned" =>
        LET f == callResult.files
            a == callArgs
            nb == IF a.backup_cron # "" THEN 1 ELSE 0
            np == IF a.enable_portainer THEN 1 ELSE 0
        IN /\ Len(f) = 4 + nb + np
           /\ f[1] = FileBase
           /\ f[2] = (IF a.db_type = "postgres" THEN FilePostgres ELSE FileMariadb)
           /\ f[3] = FileRedis
           /\ f[4] \in {FileNoproxy, FileHttps}
           /\ f[4] = FileNoproxy <=> a.deploy_mode = "local"
           /\ f[4] = FileHttps <=> a.deploy_mode \in {"production", "remote"}
           /\ nb = 1 => f[5] = FileBackup
           /\ np = 1 => f[5 + nb] = FilePortainer
           /\ (a.db_type = "mariadb" /\ a.deploy_mode = "local" /\ nb = 0 /\ np = 0) =>
                 f = <<"compose.yaml", "overrides/compose.mariadb.yaml",
                       "overrides/compose.redis.yaml", "overrides/compose.noproxy.yaml">>

C23_Witness ==
    /\ pc = "returned"
    /\ callArgs.deploy_mode = "production"
    /\ callArgs.db_type = "postgres"
    /\ callArgs.backup_cron # ""
    /\ callArgs.enable_portainer
    /\ Len(callResult.files) = 6

\* ====================================================== claims: prerequisites

RemoteIssued(i) == trace[i].arg = "remote"
ToolChecks == Range(RemoteTools) \cup Range(LocalTools) \cup {"ssh -V", "git --version"}
Terminated1 == pc = "exited" /\ exitStatus = 1

\* C24: in remote mode no remote tool check, template check or clone is
\* issued before the transport test, a failed transport test ends the run,
\* and nothing is issued after the run has ended.
C24_ReachabilityFirst ==
    /\ [](\A i \in DOMAIN trace :
            (RemoteIssued(i) /\ trace[i].cmd # "echo ok") =>
                \E j \in 1..(i - 1) : trace[j].cmd = "echo ok")
    /\ []((LastCmd = "echo ok" /\ lastExit # 0) =>
            (Terminated1 /\ Cardinality({i \in DOMAIN trace : RemoteIssued(i)}) = 1))
    /\ [][pc # "exited"]_vars

C24_Witness ==
    /\ cfg.deploy_mode = "remote"
    /\ LastCmd = "echo ok" /\ lastExit = SshUnreachable
    /\ pc = "exited"

\* C25: a failed tool check, a failed transport test and a failed template
\* clone each end the process with exit status 1; a run that has ended takes
\* no further step, has issued nothing but prerequisite commands and has
\* left the environment file alone.
C25_PrerequisiteFailureIsFatal ==
    /\ []((LastCmd \in ToolChecks \cup {"echo ok", "git clone"} /\ lastExit # 0) =>
            Terminated1)
    /\ [](pc = "exited" =>
            /\ exitStatus = 1
            /\ envTarget = "absent" /\ envTmp = "absent"
            /\ \A i \in DOMAIN trace :
                  trace[i].cmd \in ToolChecks \cup {"echo ok", "test -f", "git clone"})
    /\ [][pc = "exited" => pc' = "exited" /\ trace' = trace]_vars

C25_Witness ==
    /\ LastCmd = "git clone" /\ lastExit # 0
    /\ pc = "exited" /\ exitStatus = 1

\* the templates lie where the later stages work
TemplatesPresent ==
    IF cfg.deploy_mode = "remote"
    THEN fs.dir = "templates"
    ELSE \/ cwd = "." /\ fs.compose
         \/ cwd = "frappe_docker" /\ fs.dir = "templates"

\* C26: whenever run_prerequisites returns, compose.yaml is present in the
\* working directory (local, production) or in ~/frappe_docker on the remote
\* host (remote), whatever the file system looked like before.
C26_TemplatesPresentOnReturn == pc = "env_file" => TemplatesPresent

FetchFailed == \E i \in DOMAIN callArgs : callArgs[i].kind = "raise"

\* C27: whatever fails while the tags are fetched (host unreachable, timeout,
\* HTTP error, truncated or undecodable body, malformed JSON, unexpected
\* shape, on the first page or a later one), fetch_erpnext_versions returns
\* the empty list without raising, and the version prompt then offers the
\* built-in default v16.7.3.
C27_FetchNeverRaises ==
    FetchFailed =>
        /\ pc # "exited"
        /\ pc = "fetched" => callResult.versions = <<>>
        /\ pc = "ask_version" =>
              callResult.versions = <<>>
              /\ callResult.default_version = <<"v", "1", "6", ".", "7", ".", "3">>

\* the heads of the listing, read off the input
HeadsListed ==
    {name \in KnownHeads : HeadLine(name) \in callArgs.stdout}

MajorBranch == <<"version-">> \o UpToDot(Tail(callArgs.erpnext_version))

\* b comes before c in the order version-<major>, main, master, develop
Preferred(b, c) ==
    \/ b = MajorBranch /\ c # MajorBranch
    \/ b = <<"main">> /\ c \in {<<"master">>, <<"develop">>}
    \/ b = <<"master">> /\ c = <<"develop">>

Eligible == HeadsListed \cap {MajorBranch, <<"main">>, <<"master">>, <<"develop">>}

EnvValue(key) ==
    LET i == CHOOSE j \in DOMAIN callResult : callResult[j].key = key
    IN callResult[i].value

VersionX == <<"version-">> \o callArgs.major

\* C29: for every version string vX.Y.Z the derived default branch, as
\* written to FRAPPE_VERSION in the environment file and as used for the
\* add-on branch and the image build, is exactly version-X.
C29_DefaultBranchIsVersionMajor ==
    /\ pc = "env_content" => EnvValue("FRAPPE_VERSION") = VersionX
    /\ pc = "build_image" =>
          callResult.frappe_branch = VersionX /\ callResult.apps_branch = VersionX

C29_Witness ==
    /\ pc = "build_image"
    /\ callArgs.major = <<"1", "5">>
    /\ callArgs.minor = <<"1", "0">>
    /\ callResult.frappe_branch = <<"version-", "1", "5">>

\* reading a value of the environment file back: a value in double quotes
\* loses the quotes, and a backslash with the character after it becomes
\* that character, or the line break the letter stands for
RECURSIVE Unescape(_)
Unescape(str) ==
    IF str = <<>> THEN <<>>
    ELSE IF Head(str) = Backslash /\ Len(str) >= 2
         THEN <<CASE str[2] = "n" -> Newline
                  [] str[2] = "r" -> Return
                  [] OTHER -> str[2]>> \o Unescape(Tail(Tail(str)))
         ELSE <<Head(str)>> \o Unescape(Tail(str))

EnvDecode(written) ==
    IF Len(written) >= 2 /\ Head(written) = Quote /\ written[Len(written)] = Quote
    THEN Unescape(SubSeq(written, 2, Len(written) - 1))
    ELSE written

Special(value) == \E i \in DOMAIN value : value[i] \in NeedsQuoting

\* every backslash, double quote, dollar and backtick of `value` behind one
\* more backslash, a line feed as \n and a carriage return as \r, everything
\* else as is
RECURSIVE EscapedForm(_)
EscapedForm(value) ==
    IF value = <<>> THEN <<>>
    ELSE (CASE Head(value) \in {Backslash, Quote, "$", Backtick} -> <<Backslash, Head(value)>>
            [] Head(value) = Newline -> <<Backslash, "n">>
            [] Head(value) = Return -> <<Backslash, "r">>
            [] OTHER -> <<Head(value)>>) \o EscapedForm(Tail(value))

QuotedAsClaimed(value, written) ==
    /\ ~Special(value) => written = value
    /\ Special(value) => written = <<Quote>> \o EscapedForm(value) \o <<Quote>>
    /\ EnvDecode(written) = value

IsDigits(str) == str # <<>> /\ \A i \in DOMAIN str : str[i] \in DigitChars

StrictParts(name) ==
    {p \in [major : {SubSeq(name, 2, i) : i \in 2..Len(name)},
            minor : {SubSeq(name, i, j) : i, j \in 1..Len(name)},
            patch : {SubSeq(name, i, Len(name)) : i \in 1..Len(name)}] :
        /\ IsDigits(p.major) /\ IsDigits(p.minor) /\ IsDigits(p.patch)
        /\ name = <<"v">> \o p.major \o <<".">> \o p.minor \o <<".">> \o p.patch}

Kept(name) == \E p \in StrictParts(name) : IntOf(p.major) >= 14

NumericKey(name) ==
    LET p == CHOOSE q \in StrictParts(name) : TRUE
    IN <<IntOf(p.major), IntOf(p.minor), IntOf(p.patch)>>

\* the first page that is empty or shorter than the page size
LastPage ==
    CHOOSE n \in DOMAIN callArgs :
        /\ callArgs[n].names = <<>> \/ ~callArgs[n].full
        /\ \A i \in 1..(n - 1) : callArgs[i].names # <<>> /\ callArgs[i].full

Occurrences(seq, x) == Cardinality({i \in DOMAIN seq : seq[i] = x})

RECURSIVE NamesServed(_)
NamesServed(n) == IF n = 0 THEN <<>> ELSE NamesServed(n - 1) \o callArgs[n].names

\* C31: the versions returned are exactly the served tags of the form
\* vMAJOR.MINOR.PATCH with MAJOR >= 14, ordered by numeric (major, minor,
\* patch) descending, and the last page requested is the first one that is
\* empty or shorter than the page size.
C31_StableTagsNewestFirst ==
    pc = "fetched" /\ ~FetchFailed =>
        /\ callResult.page = LastPage
        /\ \A i \in DOMAIN callResult.versions : Kept(callResult.versions[i])
        /\ \A i \in 1..LastPage : \A j \in DOMAIN callArgs[i].names :
              LET name == callArgs[i].names[j]
              IN Kept(name) =>
                    Occurrences(callResult.versions, name)
                        = Occurrences(NamesServed(LastPage), name)
        /\ \A i, j \in DOMAIN callResult.versions :
              i < j => KeyGeq(NumericKey(callResult.versions[i]),
                              NumericKey(callResult.versions[j]))

C31_Witness ==
    /\ pc = "fetched"
    /\ Len(callArgs) = 2
    /\ callResult.page = 2
    /\ callResult.versions =
          << <<"v", "1", "6", ".", "1", "0", ".", "0">>,
             <<"v", "1", "6", ".", "9", ".", "0">>,
             <<"v", "1", "6", ".", "7", ".", "3">>,
             <<"v", "1", "5", ".", "2", ".", "0">> >>

\* ====================================================== claims: hosts file

\* the lines of a text
RECURSIVE SplitLines(_, _)
SplitLines(text, line) ==
    IF text = <<>> THEN <<line>>
    ELSE IF Head(text) = "\n" THEN <<line>> \o SplitLines(Tail(text), <<>>)
    ELSE SplitLines(Tail(text), Append(line, Head(text)))

\* the words of a line up to a comment sign, a word being the pieces between
\* two blanks
RECURSIVE Words(_, _)
Words(line, word) ==
    LET done == IF word = <<>> THEN <<>> ELSE <<word>>
    IN IF line = <<>> \/ Head(line) = "#" THEN done
       ELSE IF Head(line) \in {" ", "\t"} THEN done \o Words(Tail(line), <<>>)
       ELSE Words(Tail(line), Append(word, Head(line)))

\* the line maps the loopback address to exactly `name`
MapsLoopback(line, name) ==
    LET w == Words(line, <<>>)
    IN /\ Len(w) >= 2
       /\ w[1] = <<Loopback>>
       /\ \E i \in 2..Len(w) : w[i] = <<name>>

Entries(content) ==
    LET lines == SplitLines(content, <<>>)
    IN {i \in DOMAIN lines : MapsLoopback(lines[i], SiteName)}

\* C32: outside local mode the hosts file is neither read nor written; in
\* local mode a run appends the loopback line for the site name exactly when
\* no entry maps 127.0.0.1 to that name, the earlier content stays, and after
\* two runs the file holds exactly one such entry.
C32_HostsRegistration ==
    /\ [](callArgs.deploy_mode # "local" =>
            callResult.reads = 0 /\ callResult.content = callArgs.content)
    /\ [][callArgs.deploy_mode = "local" =>
            /\ (callResult'.appends = callResult.appends + 1)
                  <=> (Entries(callResult.content) = {})
            /\ SubSeq(callResult'.content, 1, Len(callResult.content)) = callResult.content]_vars
    /\ []((callArgs.deploy_mode = "local" /\ callResult.runs = 2) =>
            Cardinality(Entries(callResult.content)) = 1)

\* ====================================================== claims: pipeline

StagesCalled == [i \in DOMAIN callResult.passed |-> callResult.passed[i].stage]

\* C33: the executor is the SSH one exactly when the mode is remote, one
\* executor is constructed per run, and prerequisites, environment file,
\* bring-up and bootstrap are all handed that one, in this order.
C33_OneExecutorPerRun ==
    /\ Len(callResult.executors) <= 1
    /\ \A i \in DOMAIN callResult.executors :
          (callResult.executors[i] = "SSHExecutor") <=> (cfg.deploy_mode = "remote")
    /\ \A i \in DOMAIN callResult.passed :
          callResult.passed[i].executor = 1 /\ Len(callResult.executors) = 1
    /\ StagesCalled = SubSeq(<<"run_prerequisites", "run_env_file", "run_docker", "run_site">>,
                             1, Len(StagesCalled))
    /\ pc = "done" => Len(StagesCalled) = 4

C33_Witness ==
    /\ pc = "done"
    /\ cfg.deploy_mode = "remote"
    /\ callResult.executors = <<"SSHExecutor">>
    /\ Len(callResult.passed) = 4

SetupCmds == {"configure", "create_executor", "prerequisites", "env-file"}
BringUpCmds == {"docker-build", "write_overlay", "down", "up", "poll", "wait"}
Bootstrap(i) == trace[i].cmd \notin SetupCmds \cup BringUpCmds
Before(i, c) == \E j \in 1..(i - 1) : trace[j].cmd = c

\* the health poll, and the timed wait after a poll that gave up, are over
\* before event i
Settled(i) ==
    \E j \in 1..(i - 1) :
        /\ trace[j].cmd = "poll"
        /\ \/ trace[j].arg = "healthy"
           \/ j + 1 < i /\ trace[j + 1].cmd = "wait"

AddOnCmds == Range(StepCmd) \cup {"ls-remote"}
AddOnEvent(i, app) ==
    /\ trace[i].cmd \in AddOnCmds
    /\ trace[i].arg = app
    /\ trace[i].site \in {"", PrimarySite}

\* C35: the stages run one after the other: the configuration precedes the
\* executor, the environment file precedes every compose command, no
\* bootstrap command precedes a successful start and the end of the health
\* poll or fallback wait, and the commands of one add-on are not interleaved
\* with another's.
C35_StagesInSequence ==
    /\ [](\A i \in DOMAIN trace :
            /\ trace[i].cmd = "create_executor" => Before(i, "configure")
            /\ (trace[i].cmd \in BringUpCmds \/ Bootstrap(i)) => Before(i, "env-file")
            /\ Bootstrap(i) => Before(i, "up") /\ Settled(i))
    /\ []((LastCmd = "up" /\ lastExit # 0) => pc = "exited")
    /\ [][/\ pc \notin {"exited", "done"}
          /\ (Len(trace') = Len(trace) + 1 /\ Last(trace').cmd \in AddOnCmds
                 /\ Last(trace').site \in {"", PrimarySite}) =>
                \/ AddOnEvent(Len(trace), Last(trace').arg)
                \/ \A i \in DOMAIN trace : ~AddOnEvent(i, Last(trace').arg)]_vars

C35_Witness ==
    /\ pc = "done"
    /\ Len(cfg.extra_apps) = 2
    /\ \E i, j \in DOMAIN trace :
          /\ i < j
          /\ trace[i].cmd = "wait"
          /\ AddOnEvent(j, cfg.extra_apps[1])
          /\ \E l \in (j + 1)..Len(trace) : AddOnEvent(l, cfg.extra_apps[2])

\* ====================================================== claims: passwords

\* C34: a configuration that reaches the pipeline, whatever its source, has
\* a database root password and an admin password of at least six characters.
C34_MinimumPasswordLength ==
    pc = "create_executor" =>
        Len(cfg.db_password) >= 6 /\ Len(cfg.admin_password) >= 6

\* ====================================================== claims: re-issue

\* events that are commands handed to the executor
Prompts == {"confirm", "hosts", "summary", "wait", "configure", "create_executor",
            "prerequisites", "env-file", "write_overlay"}

MayRepeat(e) == e.cmd = "poll" \/ (e.cmd = "new-site" /\ e.site = PrimarySite)

\* C36: apart from the status probe of the health poll and the primary
\* site creation the operator agreed to repeat, no command is issued twice
\* for the same site and add-on; the primary site creation is repeated only
\* directly after the operator's agreement.
C36_NoAutomaticRetry ==
    /\ \A i, j \in DOMAIN trace :
          (i < j /\ trace[i] = trace[j] /\ trace[i].cmd \notin Prompts)
              => MayRepeat(trace[i])
    /\ \A j \in DOMAIN trace :
          (trace[j].cmd = "new-site" /\ trace[j].site = PrimarySite
             /\ \E i \in 1..(j - 1) : trace[i] = trace[j])
              => trace[j - 1] = Event("confirm", "yes", "", 0)

C36_Witness ==
    /\ pc = "done"
    /\ Cardinality({i \in DOMAIN trace :
                        trace[i].cmd = "new-site" /\ trace[i].site = PrimarySite}) = 2
    /\ \E i \in DOMAIN trace : trace[i].cmd = "enable-scheduler"

\* ====================================================== claims: secondary sites

Secondary(i) == trace[i].site \in Range(cfg.extra_sites)

\* C37: for a secondary site only the site creation, the scheduler enabling
\* and the install onto the site are issued, and the fetch, dependency
\* install, manifest registration, build and asset copy of an add-on are
\* issued once, however many secondary sites there are.
C37_SecondarySiteCommands ==
    /\ \A i \in DOMAIN trace :
          Secondary(i) => trace[i].cmd \in {"new-site", "enable-scheduler", "install-app"}
    /\ \A i, j \in DOMAIN trace :
          (/\ trace[i].cmd \in {"get-app", "pip-install", "register", "bench-build",
                                "copy-assets"}
           /\ trace[j].cmd = trace[i].cmd
           /\ trace[j].arg = trace[i].arg) => i = j

C37_Witness ==
    /\ pc = "done"
    /\ Len(cfg.extra_sites) >= 1
    /\ \E i, j \in DOMAIN trace :
          /\ trace[i].cmd = "copy-assets"
          /\ i < j
          /\ Secondary(j)
          /\ trace[j].cmd = "install-app"
          /\ trace[j].arg = trace[i].arg

\* the creation of secondary site s exited 0: site.py:78-81 enables its
\* scheduler then, and only then, directly after the creation
CreatedOk(s) ==
    \E i \in 1..(Len(trace) - 1) :
        /\ trace[i].cmd = "new-site" /\ trace[i].site = s
        /\ trace[i + 1].cmd = "enable-scheduler" /\ trace[i + 1].site = s

\* C38: an install onto a secondary site is issued only if that site's
\* creation exited 0; a failed creation of a secondary site is not repeated
\* and does not end the run.
C38_InstallOnlyOnCreatedSite ==
    /\ [](\A i \in DOMAIN trace :
            (Secondary(i) /\ trace[i].cmd = "install-app") => CreatedOk(trace[i].site))
    /\ [](\A i, j \in DOMAIN trace :
            (Secondary(i) /\ trace[i].cmd = "new-site" /\ trace[j] = trace[i]) => i = j)
    /\ [][(pc = "extra_site" /\ Len(trace') = Len(trace) + 1 /\ lastExit' # 0)
             => pc' = "extra_site" /\ exitStatus' = exitStatus]_vars

\* ====================================================== claims: add-on names

\* the last path segment of the URL, without a trailing slash and without
\* one trailing .git
ShortName(url) ==
    LET u == IF url # <<>> /\ url[Len(url)] = "/" THEN SubSeq(url, 1, Len(url) - 1) ELSE url
        v == IF Len(u) >= 4 /\ SubSeq(u, Len(u) - 3, Len(u)) = DotGit
             THEN SubSeq(u, 1, Len(u) - 4) ELSE u
    IN LastSegment(v)

\* C39: from every source the short name of a custom add-on is the last
\* path segment of its URL with a trailing slash and one trailing .git
\* removed and nothing else, and that name is given to the dependency
\* install, the manifest registration and the install on the site.
C39_ShortNameOfCustomAddOn ==
    /\ pc = "configured" => callResult.name = ShortName(UrlOf(callArgs))
    /\ pc = "installed" =>
          /\ callResult.pip_install = ShortName(UrlOf(callArgs))
          /\ callResult.register = ShortName(UrlOf(callArgs))
          /\ callResult.install_app = ShortName(UrlOf(callArgs))

\* ====================================================== claims: upgrade

StateChanging == {"backup", "sed-erpnext", "sed-frappe", "pull", "up", "migrate"}
Changes == SelectSeq(trace, LAMBDA e : e.cmd \in StateChanging)

\* C40: the state-changing commands of an upgrade are issued in the order
\* backup, environment-file rewrite, pull, restart, migrate, each only after
\* the one before it exited 0; none is issued when the target is the
\* current version or the operator declined.
C40_UpgradeOrderAndGating ==
    /\ [](\A i \in DOMAIN Changes :
            Changes[i].cmd = <<"backup", "sed-erpnext", "sed-frappe", "pull", "up", "migrate">>[i])
    /\ [][(Len(trace') = Len(trace) + 1 /\ Last(trace').cmd \in StateChanging
             /\ LastCmd \in StateChanging) => lastExit = 0]_vars
    /\ []((Changes # <<>>) =>
            /\ callResult.target_version # callResult.current_version
            /\ \E i \in DOMAIN trace : trace[i] = Event("confirm", "yes", "", 0))

====
